---- MODULE Spec2Model ----
(***************************************************************************)
(* DevReview: static code review engine.                                   *)
(*                                                                         *)
(* The module models the scoring pipeline (aggregator), the review         *)
(* decision engine, the Review Cost Index engine and the browser verdict   *)
(* engine.  JavaScript strings are modelled as sequences of character      *)
(* codes, so that toLowerCase() and includes() are computed on the text    *)
(* the code builds.  An optional value is a sequence of length 0 or 1.     *)
(***************************************************************************)
EXTENDS Integers, Sequences, FiniteSets, TLC

VARIABLES
    rciIn,          \* arguments of calculateRCI: [metrics, securityScore]
    rciOut,         \* <<>> before the call, <<RCIResult>> after it
    submitted,      \* the submitted files: a sequence of [filename, content]
    serverResult,   \* <<>>, or <<the result of the server's analyzeCode>>
    browserResult,  \* <<>>, or <<the result of the browser engine>>
    verdictIn,      \* argument of determineVerdict (analysisResult)
    verdictOut,     \* <<>> before the call, <<its result>> after it
    decisionIn,     \* argument of determineDecision (scores)
    decisionOut,    \* <<>> before the call, <<its result>> after it
    response,       \* <<>>, or <<the outcome of a server entry point>>
    reviews,        \* the Review documents saved in the database
    github,         \* what GitHub serves: a repository tree or a pull request
    githubData,     \* <<>>, or <<the file list loaded from GitHub>>
    selectedFiles,  \* the paths selected in the FileSelector
    fetching,       \* <<>>, or <<the loop of fetchMultipleFiles>>
    requests,       \* the network requests of the browser, in order
    history,        \* the history kept in localStorage, newest first
    historyCalls,   \* the calls that wrote the history, each with what it returned
    location,       \* <<>>, or <<the route navigated to>>
    isConnected,    \* the module variable isConnected of api/analyze.js
    invocations,    \* the invocations of the serverless handler in the process
    connectCalls,   \* the number of calls of mongoose.connect in the process
    env             \* process.env of the serverless process

vars ==
    <<rciIn, rciOut, submitted, serverResult, browserResult, verdictIn, verdictOut,
      decisionIn, decisionOut, response, reviews, github, githubData, selectedFiles,
      fetching, requests, history, historyCalls, location, isConnected, invocations,
      connectCalls, env>>

rciVars == <<rciIn, rciOut>>

pipelineVars == <<submitted, serverResult, browserResult>>

verdictVars == <<verdictIn, verdictOut>>

decisionVars == <<decisionIn, decisionOut>>

entryVars == <<response, reviews>>

lambdaVars == <<isConnected, invocations, connectCalls, env>>

sessionVars ==
    <<github, githubData, selectedFiles, fetching, requests, history, historyCalls,
      location>>

\* the variables of the engines that a specification leaves out stay empty
IdleRCI == rciIn = <<>> /\ rciOut = <<>>

IdlePipeline == submitted = <<>> /\ serverResult = <<>> /\ browserResult = <<>>

IdleVerdict == verdictIn = <<>> /\ verdictOut = <<>>

IdleDecision == decisionIn = <<>> /\ decisionOut = <<>>

IdleEntry == response = <<>> /\ reviews = <<>>

IdleLambda ==
    /\ isConnected = FALSE /\ invocations = <<>> /\ connectCalls = 0
    /\ env = [MONGODB_URI |-> <<>>]

IdleSession ==
    /\ github = <<>> /\ githubData = <<>> /\ selectedFiles = <<>>
    /\ fetching = <<>>
    /\ requests = <<>> /\ history = <<>> /\ historyCalls = <<>> /\ location = <<>>

(***************************************************************************)
(* Bounds of the model.                                                    *)
(***************************************************************************)
MaxNestingDepth == 9
MaxCyclomaticComplexity == 26
MaxStatements == 2
MaxFiles == 2
MaxCriticalIssues == 2
MaxBranches == 21
MaxCalls == 3
MaxListed == 21
MaxRequests == 24

MaxInvocations == 2

MaxHistoryCalls == 3

(***************************************************************************)
(* JavaScript primitives.                                                  *)
(***************************************************************************)
ToLowerCaseChar(c) == IF c >= 65 /\ c <= 90 THEN c + 32 ELSE c

\* String.prototype.toLowerCase
ToLowerCase(t) == [i \in 1..Len(t) |-> ToLowerCaseChar(t[i])]

\* String.prototype.includes
Includes(t, p) ==
    \/ Len(p) = 0
    \/ \E i \in 1..(Len(t) - Len(p) + 1) :
           /\ t[i] = p[1]
           /\ \A j \in 2..Len(p) : t[i + j - 1] = p[j]

\* decimal rendering of a non-negative integer inside a template literal
RECURSIVE NumberToString(_)
NumberToString(n) == IF n < 10 THEN <<48 + n>> ELSE NumberToString(n \div 10)
                                                        \o <<48 + (n % 10)>>

\* Math.floor(num / den) in the place of Math.round
MathRoundDown(num, den) == num \div den

\* Math.round(num / den) for num >= 0, den > 0 (halves round up)
MathRound(num, den) == (2 * num + den) \div (2 * den)

MathMax(a, b) == IF a >= b THEN a ELSE b

MathMin(a, b) == IF a <= b THEN a ELSE b

(***************************************************************************)
(* Review Cost Index (src/decision/reviewCostIndex.js).                    *)
(* Weights are kept in hundredths: 25 stands for 0.25.                     *)
(***************************************************************************)
RCI_WEIGHTS ==
    [nestingDepth |-> 25, cyclomaticComplexity |-> 30,
     functionLength |-> 20, securityDeductions |-> 25]

\* Object.entries(RCI_WEIGHTS): insertion order of the keys
RCI_FACTORS == <<"nestingDepth", "cyclomaticComplexity", "functionLength",
                 "securityDeductions">>

NORMALIZATION ==
    [nestingDepth |-> [min |-> 0, max |-> 8],
     cyclomaticComplexity |-> [min |-> 1, max |-> 25],
     functionLength |-> [min |-> 0, max |-> 100],
     securityDeductions |-> [min |-> 0, max |-> 25]]

RCI_LEVELS ==
    [LOW |-> [max |-> 33, label |-> "LOW"],
     MEDIUM |-> [max |-> 66, label |-> "MEDIUM"],
     HIGH |-> [max |-> 100, label |-> "HIGH"]]

\* the string literals of src/decision/reviewCostIndex.js,
\* each the sequence of its character codes
RciTxt ==
    [\* "deep nesting"
     LabelNestingDepth |-> <<100, 101, 101, 112, 32, 110, 101, 115, 116,
         105, 110, 103>>,
     \* "high cyclomatic complexity"
     LabelCyclomaticComplexity |-> <<104, 105, 103, 104, 32, 99, 121, 99,
         108, 111, 109, 97, 116, 105, 99, 32, 99, 111, 109, 112, 108, 101,
         120, 105, 116, 121>>,
     \* "long functions"
     LabelFunctionLength |-> <<108, 111, 110, 103, 32, 102, 117, 110, 99,
         116, 105, 111, 110, 115>>,
     \* "security concerns"
     LabelSecurityDeductions |-> <<115, 101, 99, 117, 114, 105, 116, 121,
         32, 99, 111, 110, 99, 101, 114, 110, 115>>,
     \* "This code is straightforward to review (RCI: "
     TxtLowHead |-> <<84, 104, 105, 115, 32, 99, 111, 100, 101, 32, 105,
         115, 32, 115, 116, 114, 97, 105, 103, 104, 116, 102, 111, 114, 119,
         97, 114, 100, 32, 116, 111, 32, 114, 101, 118, 105, 101, 119, 32,
         40, 82, 67, 73, 58, 32>>,
     \* "). Clear structure and manageable complexity allow single-pass review."
     TxtLowTail |-> <<41, 46, 32, 67, 108, 101, 97, 114, 32, 115, 116,
         114, 117, 99, 116, 117, 114, 101, 32, 97, 110, 100, 32, 109, 97,
         110, 97, 103, 101, 97, 98, 108, 101, 32, 99, 111, 109, 112, 108,
         101, 120, 105, 116, 121, 32, 97, 108, 108, 111, 119, 32, 115, 105,
         110, 103, 108, 101, 45, 112, 97, 115, 115, 32, 114, 101, 118, 105,
         101, 119, 46>>,
     \* "This code requires moderate review effort (RCI: "
     TxtMediumHead |-> <<84, 104, 105, 115, 32, 99, 111, 100, 101, 32,
         114, 101, 113, 117, 105, 114, 101, 115, 32, 109, 111, 100, 101, 114,
         97, 116, 101, 32, 114, 101, 118, 105, 101, 119, 32, 101, 102, 102,
         111, 114, 116, 32, 40, 82, 67, 73, 58, 32>>,
     \* "). Main contributor: "
     TxtMediumMid |-> <<41, 46, 32, 77, 97, 105, 110, 32, 99, 111, 110,
         116, 114, 105, 98, 117, 116, 111, 114, 58, 32>>,
     \* ". Reviewer may need to re-read sections for full understanding."
     TxtMediumTail |-> <<46, 32, 82, 101, 118, 105, 101, 119, 101, 114,
         32, 109, 97, 121, 32, 110, 101, 101, 100, 32, 116, 111, 32, 114,
         101, 45, 114, 101, 97, 100, 32, 115, 101, 99, 116, 105, 111, 110,
         115, 32, 102, 111, 114, 32, 102, 117, 108, 108, 32, 117, 110, 100,
         101, 114, 115, 116, 97, 110, 100, 105, 110, 103, 46>>,
     \* "This code demands significant review effort (RCI: "
     TxtHighHead |-> <<84, 104, 105, 115, 32, 99, 111, 100, 101, 32, 100,
         101, 109, 97, 110, 100, 115, 32, 115, 105, 103, 110, 105, 102, 105,
         99, 97, 110, 116, 32, 114, 101, 118, 105, 101, 119, 32, 101, 102,
         102, 111, 114, 116, 32, 40, 82, 67, 73, 58, 32>>,
     \* "). Primary concern: "
     TxtHighMid |-> <<41, 46, 32, 80, 114, 105, 109, 97, 114, 121, 32,
         99, 111, 110, 99, 101, 114, 110, 58, 32>>,
     \* " points). Expect detailed commenting or potential rejection."
     TxtHighPoints |-> <<32, 112, 111, 105, 110, 116, 115, 41, 46, 32,
         69, 120, 112, 101, 99, 116, 32, 100, 101, 116, 97, 105, 108, 101,
         100, 32, 99, 111, 109, 109, 101, 110, 116, 105, 110, 103, 32, 111,
         114, 32, 112, 111, 116, 101, 110, 116, 105, 97, 108, 32, 114, 101,
         106, 101, 99, 116, 105, 111, 110, 46>>,
     \* " ("
     TxtOpenParen |-> <<32, 40>>]

\* normalizeMetric without the upper clamp
normalizeMetricUnclamped(value, min, max) ==
    IF value <= min THEN 0
    ELSE MathRound((value - min) * 100, max - min)

\* normalizeMetric truncating instead of rounding
normalizeMetricTruncated(value, min, max) ==
    IF value <= min THEN 0
    ELSE IF value >= max THEN 100
    ELSE ((value - min) * 100) \div (max - min)

normalizeMetric(value, min, max) ==
    IF value <= min THEN 0
    ELSE IF value >= max THEN 100
    ELSE MathRound((value - min) * 100, max - min)

getRawValue(factor, metrics, securityDeductions) ==
    CASE factor = "nestingDepth" -> metrics.maxNestingDepth
      [] factor = "cyclomaticComplexity" -> metrics.maxCyclomaticComplexity
      [] factor = "functionLength" -> metrics.maxFunctionLength
      [] factor = "securityDeductions" -> securityDeductions
      [] OTHER -> 0

determineLevel(score) ==
    IF score <= RCI_LEVELS.LOW.max THEN RCI_LEVELS.LOW
    ELSE IF score <= RCI_LEVELS.MEDIUM.max THEN RCI_LEVELS.MEDIUM
    ELSE RCI_LEVELS.HIGH

formatFactorName(factor) ==
    CASE factor = "nestingDepth" -> RciTxt.LabelNestingDepth
      [] factor = "cyclomaticComplexity" -> RciTxt.LabelCyclomaticComplexity
      [] factor = "functionLength" -> RciTxt.LabelFunctionLength
      [] factor = "securityDeductions" -> RciTxt.LabelSecurityDeductions

\* the insertion step placing a factor before the factors it ties with
RECURSIVE InsertBeforeTies(_, _, _)
InsertBeforeTies(sorted, name, factors) ==
    IF sorted = <<>> THEN <<name>>
    ELSE IF factors[name].contribution >= factors[Head(sorted)].contribution
         THEN <<name>> \o sorted
         ELSE <<Head(sorted)>> \o InsertBeforeTies(Tail(sorted), name, factors)

\* Array.prototype.sort((a, b) => b.contribution - a.contribution) over the
\* factor names: a stable insertion sort, highest contribution first
RECURSIVE InsertByContribution(_, _, _)
InsertByContribution(sorted, name, factors) ==
    IF sorted = <<>> THEN <<name>>
    ELSE IF factors[name].contribution > factors[Head(sorted)].contribution
         THEN <<name>> \o sorted
         ELSE <<Head(sorted)>> \o InsertByContribution(Tail(sorted), name, factors)

RECURSIVE SortByContribution(_, _)
SortByContribution(names, factors) ==
    IF names = <<>> THEN <<>>
    ELSE InsertByContribution(
             SortByContribution(SubSeq(names, 1, Len(names) - 1), factors),
             names[Len(names)], factors)

generateExplanation(level, factors, totalScore) ==
    LET sortedFactors == SortByContribution(RCI_FACTORS, factors)
        topFactor == sortedFactors[1]
        topFactorName == formatFactorName(topFactor)
    IN CASE level.label = "LOW" ->
              RciTxt.TxtLowHead \o NumberToString(totalScore) \o RciTxt.TxtLowTail
         [] level.label = "MEDIUM" ->
              RciTxt.TxtMediumHead \o NumberToString(totalScore) \o RciTxt.TxtMediumMid
                  \o topFactorName \o RciTxt.TxtMediumTail
         [] level.label = "HIGH" ->
              RciTxt.TxtHighHead \o NumberToString(totalScore) \o RciTxt.TxtHighMid
              \o topFactorName
                  \o RciTxt.TxtOpenParen
                  \o NumberToString(factors[topFactor].contribution)
                  \o RciTxt.TxtHighPoints

calculateRCI(metrics, securityScore) ==
    LET securityDeductions == 25 - securityScore
        raw == [f \in DOMAIN RCI_WEIGHTS |-> getRawValue(f, metrics,
                                                         securityDeductions)]
        normalizedMetrics ==
            [f \in DOMAIN RCI_WEIGHTS |->
                normalizeMetric(raw[f], NORMALIZATION[f].min, NORMALIZATION[f].max)]
        factors ==
            [f \in DOMAIN RCI_WEIGHTS |->
                [rawValue |-> raw[f],
                 normalized |-> normalizedMetrics[f],
                 weight |-> RCI_WEIGHTS[f],
                 contribution |-> MathRound(normalizedMetrics[f] * RCI_WEIGHTS[f],
                                            100)]]
        unclamped ==
            factors.nestingDepth.contribution + factors.cyclomaticComplexity.contribution
                + factors.functionLength.contribution + factors.securityDeductions.contribution
        totalScore == MathMin(100, MathMax(0, unclamped))
        level == determineLevel(totalScore)
    IN [level |-> level.label,
        score |-> totalScore,
        factors |-> factors,
        humanExplanation |-> generateExplanation(level, factors, totalScore)]

(***************************************************************************)
(* Syntax trees.  A parsed program is the sequence of the nodes of         *)
(* Program.body in source order; a node is a record with the fields of the *)
(* Babel node that the detectors read, and loc.start.line is the field     *)
(* line.  Statement wrappers that no visitor inspects (ExpressionStatement,*)
(* VariableDeclaration, ReturnStatement) are left out: their only child    *)
(* stands in their place.                                                  *)
(***************************************************************************)
Identifier(name) == [type |-> "Identifier", name |-> name]

\* an absent child (null)
NullNode == [type |-> "null"]

NullLiteral == [type |-> "NullLiteral"]

NumericLiteral(value) == [type |-> "NumericLiteral", value |-> value]

StringLiteral(value, line) == [type |-> "StringLiteral", value |-> value, line |-> line]

MemberExpression(object, property, line) ==
    [type |-> "MemberExpression", object |-> object, property |-> property,
     computed |-> FALSE, line |-> line]

\* object[property]
ComputedMemberExpression(object, property, line) ==
    [type |-> "MemberExpression", object |-> object, property |-> property,
     computed |-> TRUE, line |-> line]

CallExpression(callee, arguments, line) ==
    [type |-> "CallExpression", callee |-> callee, arguments |-> arguments,
     line |-> line]

NewExpression(callee, arguments, line) ==
    [type |-> "NewExpression", callee |-> callee, arguments |-> arguments,
     line |-> line]

VariableDeclarator(id, init, line) ==
    [type |-> "VariableDeclarator", id |-> id, init |-> init, line |-> line]

TemplateLiteral(expressions, line) ==
    [type |-> "TemplateLiteral", expressions |-> expressions, line |-> line]

BinaryExpression(operator, left, right, line) ==
    [type |-> "BinaryExpression", operator |-> operator, left |-> left, right |-> right,
     line |-> line]

LogicalExpression(operator, left, right, line) ==
    [type |-> "LogicalExpression", operator |-> operator, left |-> left,
     right |-> right,
     line |-> line]

AssignmentExpression(left, right, line) ==
    [type |-> "AssignmentExpression", left |-> left, right |-> right, line |-> line]

AwaitExpression(argument, line) ==
    [type |-> "AwaitExpression", argument |-> argument, line |-> line]

BlockStatement(body, line) == [type |-> "BlockStatement", body |-> body, line |-> line]

IfStatement(test, consequent, alternate, line) ==
    [type |-> "IfStatement", test |-> test, consequent |-> consequent,
     alternate |-> alternate, line |-> line]

ForStatement(test, body, line) ==
    [type |-> "ForStatement", test |-> test, body |-> body, line |-> line]

CatchClause(body, line) == [type |-> "CatchClause", body |-> body, line |-> line]

TryStatement(block, handler, line) ==
    [type |-> "TryStatement", block |-> block, handler |-> handler, line |-> line]

\* loc.start.line is line and loc.end.line is endLine
FunctionDeclaration(id, params, body, async, line, endLine) ==
    [type |-> "FunctionDeclaration", id |-> id, params |-> params, body |-> body,
     async |-> async, line |-> line, endLine |-> endLine]

ArrowFunctionExpression(params, body, async, line, endLine) ==
    [type |-> "ArrowFunctionExpression", id |-> NullNode, params |-> params,
     body |-> body,
     async |-> async, line |-> line, endLine |-> endLine]

\* the root of the tree, the parent of the top-level nodes
ProgramNode == [type |-> "Program"]

FUNCTION_TYPES == {"FunctionDeclaration", "FunctionExpression",
                   "ArrowFunctionExpression"}

\* a child slot of a node: the child with its key and, in a list, its listKey
Child(node, key) ==
    IF node.type = "null" THEN <<>> ELSE <<[node |-> node, key |-> key,
                                            listKey |-> ""]>>

ChildList(nodes, listKey) ==
    [i \in 1..Len(nodes) |-> [node |-> nodes[i], key |-> "element",
                              listKey |-> listKey]]

\* the children that traverse() enters below a node, in visiting order
ChildNodes(node) ==
    CASE node.type \in {"CallExpression", "NewExpression"} ->
            Child(node.callee, "callee") \o ChildList(node.arguments, "arguments")
      [] node.type = "MemberExpression" ->
            Child(node.object, "object") \o Child(node.property, "property")
      [] node.type = "VariableDeclarator" -> Child(node.id, "id") \o Child(node.init,
                                                                           "init")
      [] node.type = "TemplateLiteral" -> ChildList(node.expressions, "expressions")
      [] node.type \in {"BinaryExpression", "LogicalExpression",
                        "AssignmentExpression"} ->
            Child(node.left, "left") \o Child(node.right, "right")
      [] node.type = "AwaitExpression" -> Child(node.argument, "argument")
      [] node.type = "BlockStatement" -> ChildList(node.body, "body")
      [] node.type = "IfStatement" ->
            Child(node.test, "test") \o Child(node.consequent, "consequent")
                \o Child(node.alternate, "alternate")
      [] node.type = "ForStatement" -> Child(node.test, "test") \o Child(node.body,
                                                                         "body")
      [] node.type = "TryStatement" ->
            Child(node.block, "block") \o Child(node.handler, "handler")
      [] node.type = "CatchClause" -> Child(node.body, "body")
      [] node.type \in FUNCTION_TYPES ->
            Child(node.id, "id") \o ChildList(node.params, "params")
                \o Child(node.body, "body")
      [] OTHER -> <<>>

\* Array.prototype.flat: the concatenation of the sequences
Flatten(seqs) ==
    LET RECURSIVE FlattenRange(_, _)
        FlattenRange(lo, hi) ==
            IF lo > hi THEN <<>>
            ELSE IF lo = hi THEN seqs[lo]
                 ELSE LET mid == (lo + hi) \div 2
                      IN FlattenRange(lo, mid) \o FlattenRange(mid + 1, hi)
    IN FlattenRange(1, Len(seqs))

\* the paths below the given child slots in depth-first pre-order; a path is
\* the node with its key, its listKey and its ancestors, the parent first
RECURSIVE TraverseChildren(_, _)
TraverseChildren(children, ancestors) ==
    Flatten([i \in 1..Len(children) |->
                <<[node |-> children[i].node, key |-> children[i].key,
                   listKey |-> children[i].listKey, ancestors |-> ancestors]>>
                    \o TraverseChildren(ChildNodes(children[i].node),
                                        <<children[i].node>> \o ancestors)])

\* traverse(ast, visitors): the paths of the program
TraversePaths(ast) == TraverseChildren(ChildList(ast, "body"), <<ProgramNode>>)

\* path.traverse(visitors): the paths strictly below a path
TraverseBelow(path) == TraverseChildren(ChildNodes(path.node), <<path.node>>
                                        \o path.ancestors)

\* path.parent
Parent(path) == Head(path.ancestors)

(***************************************************************************)
(* Visiting.  A visitor that pushes issues as it meets the nodes yields    *)
(* the issues of the paths in visiting order.  A visitor that keeps a set  *)
(* of what it reported (lines, names) and skips what the set holds reports *)
(* the first path of every key among those it would report.                *)
(***************************************************************************)
\* IssuesAt(i): the issues pushed at the i-th of n paths
VisitEach(n, IssuesAt(_)) == Flatten([i \in 1..n |-> IssuesAt(i)])

\* Matches(i): the visitor would report the i-th path; Key(i): what it adds
\* to its set when it does; IssueAt(i): the issue it pushes
VisitOnce(n, Matches(_), Key(_), IssueAt(_)) ==
    LET First(i) == /\ Matches(i)
                    /\ \A j \in 1..(i - 1) : ~(Matches(j) /\ Key(j) = Key(i))
        reported == SelectSeq([i \in 1..n |-> i], First)
    IN [k \in 1..Len(reported) |-> IssueAt(reported[k])]

(***************************************************************************)
(* Regular expressions of the detectors, computed on character codes.      *)
(***************************************************************************)
IsDigit(c) == c >= 48 /\ c <= 57

IsUpper(c) == c >= 65 /\ c <= 90

IsLower(c) == c >= 97 /\ c <= 122

IsAlnum(c) == IsDigit(c) \/ IsUpper(c) \/ IsLower(c)

\* \s
IsSpace(c) == c \in {9, 10, 11, 12, 13, 32, 160}

StartsWith(t, p) == Len(t) >= Len(p) /\ SubSeq(t, 1, Len(p)) = p

\* the characters after the first n
Rest(t, n) == SubSeq(t, n + 1, Len(t))

AllAlnum(t) == \A i \in 1..Len(t) : IsAlnum(t[i])

\* /^<prefix>[a-zA-Z0-9]+$/
PrefixedAlnum(t, prefix) ==
    StartsWith(t, prefix) /\ Len(t) > Len(prefix) /\ AllAlnum(Rest(t, Len(prefix)))
\* the string literals of src/rules/security.js,
\* each the sequence of its character codes
SecTxt ==
    [\* "apikey"
     PatApiKey |-> <<97, 112, 105, 107, 101, 121>>,
     \* "api_key"
     PatApiUnderscoreKey |-> <<97, 112, 105, 95, 107, 101, 121>>,
     \* "api-key"
     PatApiDashKey |-> <<97, 112, 105, 45, 107, 101, 121>>,
     \* "secret"
     PatSecret |-> <<115, 101, 99, 114, 101, 116>>,
     \* "password"
     PatPassword |-> <<112, 97, 115, 115, 119, 111, 114, 100>>,
     \* "token"
     PatToken |-> <<116, 111, 107, 101, 110>>,
     \* "auth"
     PatAuth |-> <<97, 117, 116, 104>>,
     \* "credential"
     PatCredential |-> <<99, 114, 101, 100, 101, 110, 116, 105, 97,
         108>>,
     \* "privatekey"
     PatPrivateKey |-> <<112, 114, 105, 118, 97, 116, 101, 107, 101,
         121>>,
     \* "private_key"
     PatPrivateUnderscoreKey |-> <<112, 114, 105, 118, 97, 116, 101, 95,
         107, 101, 121>>,
     \* "private-key"
     PatPrivateDashKey |-> <<112, 114, 105, 118, 97, 116, 101, 45, 107,
         101, 121>>,
     \* "sk_"
     PatSkPrefix |-> <<115, 107, 95>>,
     \* "pk_"
     PatPkPrefix |-> <<112, 107, 95>>,
     \* "ghp_"
     PatGhpPrefix |-> <<103, 104, 112, 95>>,
     \* "xox"
     PatXoxPrefix |-> <<120, 111, 120>>,
     \* "AKIA"
     PatAkiaPrefix |-> <<65, 75, 73, 65>>,
     \* "AIza"
     PatAizaPrefix |-> <<65, 73, 122, 97>>,
     \* "bearer"
     PatBearer |-> <<98, 101, 97, 114, 101, 114>>,
     \* "select"
     PatSelect |-> <<115, 101, 108, 101, 99, 116>>,
     \* "insert"
     PatInsert |-> <<105, 110, 115, 101, 114, 116>>,
     \* "update"
     PatUpdate |-> <<117, 112, 100, 97, 116, 101>>,
     \* "delete"
     PatDelete |-> <<100, 101, 108, 101, 116, 101>>,
     \* "from"
     PatFrom |-> <<102, 114, 111, 109>>,
     \* "where"
     PatWhere |-> <<119, 104, 101, 114, 101>>,
     \* "eval"
     NameEval |-> <<101, 118, 97, 108>>,
     \* "Function"
     NameFunction |-> <<70, 117, 110, 99, 116, 105, 111, 110>>,
     \* "exec"
     NameExec |-> <<101, 120, 101, 99>>,
     \* "execSync"
     NameExecSync |-> <<101, 120, 101, 99, 83, 121, 110, 99>>,
     \* "spawn"
     NameSpawn |-> <<115, 112, 97, 119, 110>>,
     \* "spawnSync"
     NameSpawnSync |-> <<115, 112, 97, 119, 110, 83, 121, 110, 99>>,
     \* "fork"
     NameFork |-> <<102, 111, 114, 107>>,
     \* "req"
     NameReq |-> <<114, 101, 113>>,
     \* "request"
     NameRequest |-> <<114, 101, 113, 117, 101, 115, 116>>,
     \* "Dangerous '"
     SrvEvalHead |-> <<68, 97, 110, 103, 101, 114, 111, 117, 115, 32,
         39>>,
     \* "()' usage detected at line "
     SrvEvalMid |-> <<40, 41, 39, 32, 117, 115, 97, 103, 101, 32, 100,
         101, 116, 101, 99, 116, 101, 100, 32, 97, 116, 32, 108, 105, 110,
         101, 32>>,
     \* ". This can execute arbitrary code and is a major security risk."
     SrvEvalTail |-> <<46, 32, 84, 104, 105, 115, 32, 99, 97, 110, 32,
         101, 120, 101, 99, 117, 116, 101, 32, 97, 114, 98, 105, 116, 114,
         97, 114, 121, 32, 99, 111, 100, 101, 32, 97, 110, 100, 32, 105, 115,
         32, 97, 32, 109, 97, 106, 111, 114, 32, 115, 101, 99, 117, 114, 105,
         116, 121, 32, 114, 105, 115, 107, 46>>,
     \* "Dangerous 'new Function()' usage detected at line "
     SrvNewFunctionHead |-> <<68, 97, 110, 103, 101, 114, 111, 117, 115,
         32, 39, 110, 101, 119, 32, 70, 117, 110, 99, 116, 105, 111, 110, 40,
         41, 39, 32, 117, 115, 97, 103, 101, 32, 100, 101, 116, 101, 99, 116,
         101, 100, 32, 97, 116, 32, 108, 105, 110, 101, 32>>,
     \* ". This is equivalent to eval() and can execute arbitrary code."
     SrvNewFunctionTail |-> <<46, 32, 84, 104, 105, 115, 32, 105, 115,
         32, 101, 113, 117, 105, 118, 97, 108, 101, 110, 116, 32, 116, 111,
         32, 101, 118, 97, 108, 40, 41, 32, 97, 110, 100, 32, 99, 97, 110,
         32, 101, 120, 101, 99, 117, 116, 101, 32, 97, 114, 98, 105, 116,
         114, 97, 114, 121, 32, 99, 111, 100, 101, 46>>,
     \* "Shell command execution via '"
     SrvShellHead |-> <<83, 104, 101, 108, 108, 32, 99, 111, 109, 109,
         97, 110, 100, 32, 101, 120, 101, 99, 117, 116, 105, 111, 110, 32,
         118, 105, 97, 32, 39>>,
     \* "()' at line "
     SrvShellMid |-> <<40, 41, 39, 32, 97, 116, 32, 108, 105, 110, 101,
         32>>,
     \* ". Ensure input is sanitized to prevent command injection."
     SrvShellTail |-> <<46, 32, 69, 110, 115, 117, 114, 101, 32, 105,
         110, 112, 117, 116, 32, 105, 115, 32, 115, 97, 110, 105, 116, 105,
         122, 101, 100, 32, 116, 111, 32, 112, 114, 101, 118, 101, 110, 116,
         32, 99, 111, 109, 109, 97, 110, 100, 32, 105, 110, 106, 101, 99,
         116, 105, 111, 110, 46>>,
     \* "Potential hardcoded secret in variable '"
     SrvSecretHead |-> <<80, 111, 116, 101, 110, 116, 105, 97, 108, 32,
         104, 97, 114, 100, 99, 111, 100, 101, 100, 32, 115, 101, 99, 114,
         101, 116, 32, 105, 110, 32, 118, 97, 114, 105, 97, 98, 108, 101, 32,
         39>>,
     \* "' at line "
     SrvSecretMid |-> <<39, 32, 97, 116, 32, 108, 105, 110, 101, 32>>,
     \* ". Use environment variables instead."
     SrvSecretTail |-> <<46, 32, 85, 115, 101, 32, 101, 110, 118, 105,
         114, 111, 110, 109, 101, 110, 116, 32, 118, 97, 114, 105, 97, 98,
         108, 101, 115, 32, 105, 110, 115, 116, 101, 97, 100, 46>>,
     \* "Potential hardcoded API key or token detected at line "
     SrvApiKeyHead |-> <<80, 111, 116, 101, 110, 116, 105, 97, 108, 32,
         104, 97, 114, 100, 99, 111, 100, 101, 100, 32, 65, 80, 73, 32, 107,
         101, 121, 32, 111, 114, 32, 116, 111, 107, 101, 110, 32, 100, 101,
         116, 101, 99, 116, 101, 100, 32, 97, 116, 32, 108, 105, 110, 101,
         32>>,
     \* "User input interpolated in template at line "
     SrvTemplateHead |-> <<85, 115, 101, 114, 32, 105, 110, 112, 117,
         116, 32, 105, 110, 116, 101, 114, 112, 111, 108, 97, 116, 101, 100,
         32, 105, 110, 32, 116, 101, 109, 112, 108, 97, 116, 101, 32, 97,
         116, 32, 108, 105, 110, 101, 32>>,
     \* ". Ensure proper sanitization to prevent injection attacks."
     SrvTemplateTail |-> <<46, 32, 69, 110, 115, 117, 114, 101, 32, 112,
         114, 111, 112, 101, 114, 32, 115, 97, 110, 105, 116, 105, 122, 97,
         116, 105, 111, 110, 32, 116, 111, 32, 112, 114, 101, 118, 101, 110,
         116, 32, 105, 110, 106, 101, 99, 116, 105, 111, 110, 32, 97, 116,
         116, 97, 99, 107, 115, 46>>,
     \* "Potential SQL injection: user input concatenated with SQL at line "
     SrvSqlHead |-> <<80, 111, 116, 101, 110, 116, 105, 97, 108, 32, 83,
         81, 76, 32, 105, 110, 106, 101, 99, 116, 105, 111, 110, 58, 32, 117,
         115, 101, 114, 32, 105, 110, 112, 117, 116, 32, 99, 111, 110, 99,
         97, 116, 101, 110, 97, 116, 101, 100, 32, 119, 105, 116, 104, 32,
         83, 81, 76, 32, 97, 116, 32, 108, 105, 110, 101, 32>>,
     \* ". Use parameterized queries."
     SrvSqlTail |-> <<46, 32, 85, 115, 101, 32, 112, 97, 114, 97, 109,
         101, 116, 101, 114, 105, 122, 101, 100, 32, 113, 117, 101, 114, 105,
         101, 115, 46>>,
     \* "Potential XSS: user input concatenated with HTML at line "
     SrvHtmlHead |-> <<80, 111, 116, 101, 110, 116, 105, 97, 108, 32, 88,
         83, 83, 58, 32, 117, 115, 101, 114, 32, 105, 110, 112, 117, 116, 32,
         99, 111, 110, 99, 97, 116, 101, 110, 97, 116, 101, 100, 32, 119,
         105, 116, 104, 32, 72, 84, 77, 76, 32, 97, 116, 32, 108, 105, 110,
         101, 32>>,
     \* ". Sanitize output."
     SrvHtmlTail |-> <<46, 32, 83, 97, 110, 105, 116, 105, 122, 101, 32,
         111, 117, 116, 112, 117, 116, 46>>]

(***************************************************************************)
(* Server security analyzer (src/rules/security.js).                       *)
(***************************************************************************)
\* MAX_SCORE, which the aggregator imports as SECURITY_MAX
SECURITY_MAX == 25

SECURITY_PENALTIES ==
    [EVAL_USAGE |-> 8, CHILD_PROCESS_EXEC |-> 6, HARDCODED_SECRET |-> 5,
     UNSANITIZED_INPUT |-> 4]

DANGEROUS_FUNCTIONS == {SecTxt.NameEval, SecTxt.NameFunction}

CHILD_PROCESS_METHODS == {SecTxt.NameExec, SecTxt.NameExecSync, SecTxt.NameSpawn,
                          SecTxt.NameSpawnSync, SecTxt.NameFork}

\* isUserInput: a member chain rooted at req or request
RECURSIVE isUserInput(_)
isUserInput(node) ==
    IF node.type # "MemberExpression" THEN FALSE
    ELSE IF node.object.type = "Identifier" /\ node.object.name \in {SecTxt.NameReq,
                                                                     SecTxt.NameRequest}
         THEN TRUE
         ELSE IF node.object.type = "MemberExpression" THEN isUserInput(node.object)
              ELSE FALSE

checkEvalUsage(ast, issues) ==
    LET \* the CallExpression and NewExpression visitors of checkEvalUsage
        EvalUsageAt(node) ==
            LET newFunction ==
                    [penalty |-> SECURITY_PENALTIES.EVAL_USAGE,
                     comment |-> SecTxt.SrvNewFunctionHead \o NumberToString(node.line)
                                    \o SecTxt.SrvNewFunctionTail]
            IN IF node.type = "CallExpression"
               THEN (IF node.callee.type = "Identifier" /\ node.callee.name \in DANGEROUS_FUNCTIONS
                     THEN <<[penalty |-> SECURITY_PENALTIES.EVAL_USAGE,
                             comment |-> SecTxt.SrvEvalHead \o node.callee.name
                                             \o SecTxt.SrvEvalMid
                                            \o NumberToString(node.line)
                                            \o SecTxt.SrvEvalTail]>>
                     ELSE <<>>)
                    \o (IF /\ node.type = "NewExpression"
                           /\ node.callee.type = "Identifier"
                           /\ node.callee.name = SecTxt.NameFunction
                        THEN <<newFunction>> ELSE <<>>)
               ELSE IF /\ node.type = "NewExpression"
                       /\ node.callee.type = "Identifier"
                       /\ node.callee.name = SecTxt.NameFunction
                    THEN <<newFunction>> ELSE <<>>
        paths == TraversePaths(ast)
        IssuesAt(i) == EvalUsageAt(paths[i].node)
    IN issues \o VisitEach(Len(paths), IssuesAt)

checkChildProcessUsage(ast, issues) ==
    LET \* the method a call runs when checkChildProcessUsage reports it, else <<>>
        ChildProcessMethod(node) ==
            IF node.type # "CallExpression" THEN <<>>
            ELSE IF /\ node.callee.type = "MemberExpression"
                    /\ node.callee.property.type = "Identifier"
                    /\ node.callee.property.name \in CHILD_PROCESS_METHODS
                 THEN <<node.callee.property.name>>
                 ELSE IF node.callee.type = "Identifier" /\ node.callee.name \in CHILD_PROCESS_METHODS
                      THEN <<node.callee.name>>
                      ELSE <<>>
        paths == TraversePaths(ast)
        Matches(i) == ChildProcessMethod(paths[i].node) # <<>>
        Line(i) == paths[i].node.line
        IssueAt(i) ==
            [penalty |-> SECURITY_PENALTIES.CHILD_PROCESS_EXEC,
             comment |-> SecTxt.SrvShellHead \o ChildProcessMethod(paths[i].node)[1]
                             \o SecTxt.SrvShellMid
                            \o NumberToString(Line(i)) \o SecTxt.SrvShellTail]
    IN issues \o VisitOnce(Len(paths), Matches, Line, IssueAt)

checkHardcodedSecrets(ast, issues) ==
    LET \* SECRET_VAR_PATTERNS.some(pattern => pattern.test(varName))
        MatchesSecretVarPattern(varName) ==
            LET lower == ToLowerCase(varName)
            IN \E p \in {SecTxt.PatApiKey, SecTxt.PatApiUnderscoreKey,
                         SecTxt.PatApiDashKey, SecTxt.PatSecret, SecTxt.PatPassword,
                         SecTxt.PatToken, SecTxt.PatAuth, SecTxt.PatCredential,
                         SecTxt.PatPrivateKey,
                         SecTxt.PatPrivateUnderscoreKey,
                         SecTxt.PatPrivateDashKey} : Includes(lower, p)
        \* /Bearer\s+[A-Za-z0-9\-._~+/]+=*/i
        MatchesBearer(value) ==
            LET lower == ToLowerCase(value)
                IsTokenChar(c) == IsAlnum(c) \/ c \in {45, 46, 95, 126, 43, 47}
            IN \E i \in 1..Len(value) :
                   /\ Len(value) >= i + 7
                   /\ SubSeq(lower, i, i + 5) = SecTxt.PatBearer
                   /\ \E j \in (i + 7)..Len(value) :
                          /\ \A k \in (i + 6)..(j - 1) : IsSpace(value[k])
                          /\ IsTokenChar(value[j])
        \* SECRET_PATTERNS.some(pattern => pattern.test(value))
        MatchesSecretPattern(value) ==
            \/ Len(value) >= 32 /\ AllAlnum(value)
            \/ PrefixedAlnum(value, SecTxt.PatSkPrefix)
            \/ PrefixedAlnum(value, SecTxt.PatPkPrefix)
            \/ PrefixedAlnum(value, SecTxt.PatGhpPrefix)
            \/ /\ StartsWith(value, SecTxt.PatXoxPrefix)
               /\ Len(value) >= 6
               /\ value[4] \in {98, 97, 112, 114, 115}
               /\ value[5] = 45
               /\ \A i \in 6..Len(value) : IsAlnum(value[i]) \/ value[i] = 45
            \/ /\ StartsWith(value, SecTxt.PatAkiaPrefix)
               /\ Len(value) = 20
               /\ \A i \in 5..20 : IsUpper(value[i]) \/ IsDigit(value[i])
            \/ /\ StartsWith(value, SecTxt.PatAizaPrefix)
               /\ Len(value) = 39
               /\ \A i \in 5..39 : IsAlnum(value[i]) \/ value[i] \in {45, 95}
            \/ MatchesBearer(value)
        \* the VariableDeclarator visitor of checkHardcodedSecrets
        IsSecretVariable(node) ==
            /\ node.type = "VariableDeclarator"
            /\ node.id.type = "Identifier"
            /\ node.init.type # "null"
            /\ MatchesSecretVarPattern(node.id.name)
            /\ node.init.type = "StringLiteral"
            /\ Len(node.init.value) > 5
        \* the StringLiteral visitor of checkHardcodedSecrets
        IsSecretLiteral(node) ==
            /\ node.type = "StringLiteral"
            /\ Len(node.value) >= 20
            /\ MatchesSecretPattern(node.value)
        paths == TraversePaths(ast)
        Matches(i) == IsSecretVariable(paths[i].node) \/ IsSecretLiteral(paths[i].node)
        Line(i) == paths[i].node.line
        IssueAt(i) ==
            IF IsSecretVariable(paths[i].node)
            THEN [penalty |-> SECURITY_PENALTIES.HARDCODED_SECRET,
                  comment |-> SecTxt.SrvSecretHead \o paths[i].node.id.name
                                  \o SecTxt.SrvSecretMid
                                 \o NumberToString(Line(i)) \o SecTxt.SrvSecretTail]
            ELSE [penalty |-> SECURITY_PENALTIES.HARDCODED_SECRET,
                  comment |-> SecTxt.SrvApiKeyHead \o NumberToString(Line(i))
                                  \o SecTxt.SrvSecretTail]
    IN issues \o VisitOnce(Len(paths), Matches, Line, IssueAt)

checkUnsanitizedInput(ast, issues) ==
    LET \* /select|insert|update|delete|from|where/i
        LooksLikeSql(value) ==
            \E p \in {SecTxt.PatSelect, SecTxt.PatInsert, SecTxt.PatUpdate,
                      SecTxt.PatDelete, SecTxt.PatFrom, SecTxt.PatWhere} :
                Includes(ToLowerCase(value), p)
        \* /<[a-z]+/i
        LooksLikeHtml(value) ==
            \E i \in 1..(Len(value) - 1) :
                value[i] = 60 /\ (IsLower(value[i + 1]) \/ IsUpper(value[i + 1]))
        \* the TemplateLiteral visitor of checkUnsanitizedInput
        IsUserInputTemplate(node) ==
            /\ node.type = "TemplateLiteral"
            /\ \E i \in 1..Len(node.expressions) : isUserInput(node.expressions[i])
        \* the string that the BinaryExpression visitor tests: the literal that user
        \* input is concatenated with, lowercased, else <<>>
        ConcatenatedLiteral(node) ==
            IF /\ node.type = "BinaryExpression"
               /\ node.operator = "+"
               /\ (isUserInput(node.left) \/ isUserInput(node.right))
            THEN LET otherSide == IF isUserInput(node.left) THEN node.right ELSE node.left
                 IN IF otherSide.type = "StringLiteral" THEN <<ToLowerCase(otherSide.value)>>
                    ELSE <<>>
            ELSE <<>>
        IsSqlConcatenation(node) ==
            ConcatenatedLiteral(node) # <<>> /\ LooksLikeSql(ConcatenatedLiteral(node)[1])
        IsHtmlConcatenation(node) ==
            ConcatenatedLiteral(node) # <<>> /\ LooksLikeHtml(ConcatenatedLiteral(node)[1])
        paths == TraversePaths(ast)
        Matches(i) == \/ IsUserInputTemplate(paths[i].node)
                      \/ IsSqlConcatenation(paths[i].node)
                      \/ IsHtmlConcatenation(paths[i].node)
        Line(i) == paths[i].node.line
        IssueAt(i) ==
            IF IsUserInputTemplate(paths[i].node)
            THEN [penalty |-> SECURITY_PENALTIES.UNSANITIZED_INPUT,
                  comment |-> SecTxt.SrvTemplateHead \o NumberToString(Line(i))
                                  \o SecTxt.SrvTemplateTail]
            ELSE IF IsSqlConcatenation(paths[i].node)
                 THEN [penalty |-> SECURITY_PENALTIES.UNSANITIZED_INPUT,
                       comment |-> SecTxt.SrvSqlHead \o NumberToString(Line(i))
                                       \o SecTxt.SrvSqlTail]
                 ELSE [penalty |-> SECURITY_PENALTIES.UNSANITIZED_INPUT,
                       comment |-> SecTxt.SrvHtmlHead \o NumberToString(Line(i))
                                       \o SecTxt.SrvHtmlTail]
    IN issues \o VisitOnce(Len(paths), Matches, Line, IssueAt)

analyzeSecurity(ast) ==
    checkUnsanitizedInput(ast,
        checkHardcodedSecrets(ast,
            checkChildProcessUsage(ast,
                checkEvalUsage(ast, <<>>))))

\* the string literals of client/src/analysis/rules/security.browser.js,
\* each the sequence of its character codes
BrwSecTxt ==
    [\* "apikey"
     PatApiKey |-> <<97, 112, 105, 107, 101, 121>>,
     \* "api_key"
     PatApiUnderscoreKey |-> <<97, 112, 105, 95, 107, 101, 121>>,
     \* "api-key"
     PatApiDashKey |-> <<97, 112, 105, 45, 107, 101, 121>>,
     \* "secret"
     PatSecret |-> <<115, 101, 99, 114, 101, 116>>,
     \* "password"
     PatPassword |-> <<112, 97, 115, 115, 119, 111, 114, 100>>,
     \* "passwd"
     PatPasswd |-> <<112, 97, 115, 115, 119, 100>>,
     \* "token"
     PatToken |-> <<116, 111, 107, 101, 110>>,
     \* "auth"
     PatAuth |-> <<97, 117, 116, 104>>,
     \* "credential"
     PatCredential |-> <<99, 114, 101, 100, 101, 110, 116, 105, 97,
         108>>,
     \* "privatekey"
     PatPrivateKey |-> <<112, 114, 105, 118, 97, 116, 101, 107, 101,
         121>>,
     \* "private_key"
     PatPrivateUnderscoreKey |-> <<112, 114, 105, 118, 97, 116, 101, 95,
         107, 101, 121>>,
     \* "private-key"
     PatPrivateDashKey |-> <<112, 114, 105, 118, 97, 116, 101, 45, 107,
         101, 121>>,
     \* "sk"
     PatSk |-> <<115, 107>>,
     \* "pk"
     PatPk |-> <<112, 107>>,
     \* "api"
     PatApi |-> <<97, 112, 105>>,
     \* "key"
     PatKey |-> <<107, 101, 121>>,
     \* "Function"
     NameFunction |-> <<70, 117, 110, 99, 116, 105, 111, 110>>,
     \* "child_process"
     NameChildProcess |-> <<99, 104, 105, 108, 100, 95, 112, 114, 111,
         99, 101, 115, 115>>,
     \* "cp"
     NameCp |-> <<99, 112>>,
     \* "require"
     NameRequire |-> <<114, 101, 113, 117, 105, 114, 101>>,
     \* "req"
     NameReq |-> <<114, 101, 113>>,
     \* "body"
     NameBody |-> <<98, 111, 100, 121>>,
     \* "query"
     NameQuery |-> <<113, 117, 101, 114, 121>>,
     \* "params"
     NameParams |-> <<112, 97, 114, 97, 109, 115>>,
     \* "value"
     NameValue |-> <<118, 97, 108, 117, 101>>,
     \* "data"
     NameData |-> <<100, 97, 116, 97>>,
     \* "input"
     NameInput |-> <<105, 110, 112, 117, 116>>,
     \* "innerHTML"
     NameInnerHTML |-> <<105, 110, 110, 101, 114, 72, 84, 77, 76>>,
     \* "outerHTML"
     NameOuterHTML |-> <<111, 117, 116, 101, 114, 72, 84, 77, 76>>,
     \* "textContent"
     NameTextContent |-> <<116, 101, 120, 116, 67, 111, 110, 116, 101,
         110, 116>>,
     \* "' at line "
     SrvSecretMid |-> <<39, 32, 97, 116, 32, 108, 105, 110, 101, 32>>,
     \* ". Use environment variables instead."
     SrvSecretTail |-> <<46, 32, 85, 115, 101, 32, 101, 110, 118, 105,
         114, 111, 110, 109, 101, 110, 116, 32, 118, 97, 114, 105, 97, 98,
         108, 101, 115, 32, 105, 110, 115, 116, 101, 97, 100, 46>>,
     \* "CRITICAL: "
     BrwCriticalHead |-> <<67, 82, 73, 84, 73, 67, 65, 76, 58, 32>>,
     \* "() usage detected at line "
     BrwEvalMid |-> <<40, 41, 32, 117, 115, 97, 103, 101, 32, 100, 101,
         116, 101, 99, 116, 101, 100, 32, 97, 116, 32, 108, 105, 110, 101,
         32>>,
     \* ". This allows arbitrary code execution and is a major security risk."
     BrwEvalTail |-> <<46, 32, 84, 104, 105, 115, 32, 97, 108, 108, 111,
         119, 115, 32, 97, 114, 98, 105, 116, 114, 97, 114, 121, 32, 99, 111,
         100, 101, 32, 101, 120, 101, 99, 117, 116, 105, 111, 110, 32, 97,
         110, 100, 32, 105, 115, 32, 97, 32, 109, 97, 106, 111, 114, 32, 115,
         101, 99, 117, 114, 105, 116, 121, 32, 114, 105, 115, 107, 46>>,
     \* ". This allows arbitrary code execution."
     BrwMemberEvalTail |-> <<46, 32, 84, 104, 105, 115, 32, 97, 108, 108,
         111, 119, 115, 32, 97, 114, 98, 105, 116, 114, 97, 114, 121, 32, 99,
         111, 100, 101, 32, 101, 120, 101, 99, 117, 116, 105, 111, 110, 46>>,
     \* "CRITICAL: new Function() usage detected at line "
     BrwNewFunctionHead |-> <<67, 82, 73, 84, 73, 67, 65, 76, 58, 32,
         110, 101, 119, 32, 70, 117, 110, 99, 116, 105, 111, 110, 40, 41, 32,
         117, 115, 97, 103, 101, 32, 100, 101, 116, 101, 99, 116, 101, 100,
         32, 97, 116, 32, 108, 105, 110, 101, 32>>,
     \* ". This is equivalent to eval() and allows arbitrary code execution."
     BrwNewFunctionTail |-> <<46, 32, 84, 104, 105, 115, 32, 105, 115,
         32, 101, 113, 117, 105, 118, 97, 108, 101, 110, 116, 32, 116, 111,
         32, 101, 118, 97, 108, 40, 41, 32, 97, 110, 100, 32, 97, 108, 108,
         111, 119, 115, 32, 97, 114, 98, 105, 116, 114, 97, 114, 121, 32, 99,
         111, 100, 101, 32, 101, 120, 101, 99, 117, 116, 105, 111, 110, 46>>,
     \* "CRITICAL: child_process."
     BrwChildProcessHead |-> <<67, 82, 73, 84, 73, 67, 65, 76, 58, 32,
         99, 104, 105, 108, 100, 95, 112, 114, 111, 99, 101, 115, 115, 46>>,
     \* "() detected at line "
     BrwChildProcessMid |-> <<40, 41, 32, 100, 101, 116, 101, 99, 116,
         101, 100, 32, 97, 116, 32, 108, 105, 110, 101, 32>>,
     \* ". Command injection risk if input is not sanitized."
     BrwChildProcessTail |-> <<46, 32, 67, 111, 109, 109, 97, 110, 100,
         32, 105, 110, 106, 101, 99, 116, 105, 111, 110, 32, 114, 105, 115,
         107, 32, 105, 102, 32, 105, 110, 112, 117, 116, 32, 105, 115, 32,
         110, 111, 116, 32, 115, 97, 110, 105, 116, 105, 122, 101, 100, 46>>,
     \* "Potential hardcoded secret in '"
     BrwSecretHead |-> <<80, 111, 116, 101, 110, 116, 105, 97, 108, 32,
         104, 97, 114, 100, 99, 111, 100, 101, 100, 32, 115, 101, 99, 114,
         101, 116, 32, 105, 110, 32, 39>>,
     \* "Potential hardcoded API key detected at line "
     BrwApiKeyHead |-> <<80, 111, 116, 101, 110, 116, 105, 97, 108, 32,
         104, 97, 114, 100, 99, 111, 100, 101, 100, 32, 65, 80, 73, 32, 107,
         101, 121, 32, 100, 101, 116, 101, 99, 116, 101, 100, 32, 97, 116,
         32, 108, 105, 110, 101, 32>>,
     \* ". String pattern matches common key formats."
     BrwApiKeyTail |-> <<46, 32, 83, 116, 114, 105, 110, 103, 32, 112,
         97, 116, 116, 101, 114, 110, 32, 109, 97, 116, 99, 104, 101, 115,
         32, 99, 111, 109, 109, 111, 110, 32, 107, 101, 121, 32, 102, 111,
         114, 109, 97, 116, 115, 46>>,
     \* "Potential unsanitized user input in template literal at line "
     BrwTemplateHead |-> <<80, 111, 116, 101, 110, 116, 105, 97, 108, 32,
         117, 110, 115, 97, 110, 105, 116, 105, 122, 101, 100, 32, 117, 115,
         101, 114, 32, 105, 110, 112, 117, 116, 32, 105, 110, 32, 116, 101,
         109, 112, 108, 97, 116, 101, 32, 108, 105, 116, 101, 114, 97, 108,
         32, 97, 116, 32, 108, 105, 110, 101, 32>>,
     \* ". Validate and sanitize before use."
     BrwTemplateTail |-> <<46, 32, 86, 97, 108, 105, 100, 97, 116, 101,
         32, 97, 110, 100, 32, 115, 97, 110, 105, 116, 105, 122, 101, 32, 98,
         101, 102, 111, 114, 101, 32, 117, 115, 101, 46>>,
     \* "User input concatenated into "
     BrwConcatHead |-> <<85, 115, 101, 114, 32, 105, 110, 112, 117, 116,
         32, 99, 111, 110, 99, 97, 116, 101, 110, 97, 116, 101, 100, 32, 105,
         110, 116, 111, 32>>,
     \* " at line "
     BrwConcatMid |-> <<32, 97, 116, 32, 108, 105, 110, 101, 32>>,
     \* ". XSS vulnerability risk."
     BrwConcatTail |-> <<46, 32, 88, 83, 83, 32, 118, 117, 108, 110, 101,
         114, 97, 98, 105, 108, 105, 116, 121, 32, 114, 105, 115, 107, 46>>]

(***************************************************************************)
(* Browser security analyzer                                               *)
(* (client/src/analysis/rules/security.browser.js).                        *)
(***************************************************************************)
BROWSER_SECURITY_MAX == 25

BROWSER_SECURITY_PENALTIES ==
    [EVAL_USAGE |-> 8, CHILD_PROCESS_EXEC |-> 6, HARDCODED_SECRET |-> 5,
     UNSANITIZED_INPUT |-> 4]

isUserInputBrowser(node) ==
    IF node.type # "MemberExpression" THEN FALSE
    ELSE \/ /\ node.property.type = "Identifier"
            /\ node.property.name \in
                   {BrwSecTxt.NameValue, BrwSecTxt.NameData, BrwSecTxt.NameBody,
                    BrwSecTxt.NameQuery, BrwSecTxt.NameParams, BrwSecTxt.NameInput}
         \/ node.object.type = "Identifier" /\ node.object.name = BrwSecTxt.NameReq

checkEvalUsageBrowser(ast, issues) ==
    LET \* the name that the visitors of checkEvalUsage report at a node: the callee
        \* of a direct or member call of eval or Function, else <<>>
        DangerousCallee(node) ==
            IF node.type # "CallExpression" THEN <<>>
            ELSE IF node.callee.type = "Identifier" /\ node.callee.name \in DANGEROUS_FUNCTIONS
                 THEN <<node.callee.name>>
                 ELSE IF /\ node.callee.type = "MemberExpression"
                         /\ node.callee.property.type = "Identifier"
                         /\ node.callee.property.name \in DANGEROUS_FUNCTIONS
                      THEN <<node.callee.property.name>>
                      ELSE <<>>
        IsNewFunction(node) ==
            /\ node.type = "NewExpression"
            /\ node.callee.type = "Identifier"
            /\ node.callee.name = BrwSecTxt.NameFunction
        paths == TraversePaths(ast)
        Matches(i) == DangerousCallee(paths[i].node) # <<>> \/ IsNewFunction(paths[i].node)
        Line(i) == paths[i].node.line
        IssueAt(i) ==
            LET node == paths[i].node
            IN IF IsNewFunction(node)
               THEN [penalty |-> BROWSER_SECURITY_PENALTIES.EVAL_USAGE,
                     comment |-> BrwSecTxt.BrwNewFunctionHead
                                     \o NumberToString(node.line)
                                    \o BrwSecTxt.BrwNewFunctionTail,
                     severity |-> "CRITICAL"]
               ELSE [penalty |-> BROWSER_SECURITY_PENALTIES.EVAL_USAGE,
                     comment |-> BrwSecTxt.BrwCriticalHead \o DangerousCallee(node)[1]
                                     \o BrwSecTxt.BrwEvalMid
                                    \o NumberToString(node.line)
                                    \o (IF node.callee.type = "Identifier"
                                        THEN BrwSecTxt.BrwEvalTail ELSE BrwSecTxt.BrwMemberEvalTail),
                     severity |-> "CRITICAL"]
    IN issues \o VisitOnce(Len(paths), Matches, Line, IssueAt)

checkChildProcessUsageBrowser(ast, issues) ==
    LET \* the CallExpression visitor of checkChildProcessUsage
        IsChildProcessCall(node) ==
            /\ node.type = "CallExpression"
            /\ node.callee.type = "MemberExpression"
            /\ node.callee.property.type = "Identifier"
            /\ node.callee.property.name \in CHILD_PROCESS_METHODS
            /\ LET object == node.callee.object
               IN \/ object.type = "Identifier" /\ object.name = BrwSecTxt.NameChildProcess
                  \/ object.type = "Identifier" /\ object.name = BrwSecTxt.NameCp
                  \/ /\ object.type = "CallExpression"
                     /\ object.callee.type = "Identifier"
                     /\ object.callee.name = BrwSecTxt.NameRequire
        paths == TraversePaths(ast)
        Matches(i) == IsChildProcessCall(paths[i].node)
        Line(i) == paths[i].node.line
        IssueAt(i) ==
            [penalty |-> BROWSER_SECURITY_PENALTIES.CHILD_PROCESS_EXEC,
             comment |-> BrwSecTxt.BrwChildProcessHead
                             \o paths[i].node.callee.property.name
                            \o BrwSecTxt.BrwChildProcessMid \o NumberToString(Line(i))
                            \o BrwSecTxt.BrwChildProcessTail,
             severity |-> "CRITICAL"]
    IN issues \o VisitOnce(Len(paths), Matches, Line, IssueAt)

checkHardcodedSecretsBrowser(ast, issues) ==
    LET \* SECRET_PATTERNS of the browser copy, tested on a variable name
        MatchesSecretPatternBrowser(varName) ==
            LET lower == ToLowerCase(varName)
            IN \E p \in {BrwSecTxt.PatApiKey, BrwSecTxt.PatApiUnderscoreKey,
                         BrwSecTxt.PatApiDashKey, BrwSecTxt.PatSecret,
                         BrwSecTxt.PatPassword,
                         BrwSecTxt.PatPasswd, BrwSecTxt.PatToken, BrwSecTxt.PatAuth,
                         BrwSecTxt.PatCredential, BrwSecTxt.PatPrivateKey,
                         BrwSecTxt.PatPrivateUnderscoreKey,
                         BrwSecTxt.PatPrivateDashKey} : Includes(lower, p)
        \* /^[a-zA-Z0-9_-]{32,}$/ or /^(sk|pk|api|key)[-_][a-zA-Z0-9]{16,}$/i
        looksLikeApiKey(value) ==
            \/ /\ Len(value) >= 32
               /\ \A i \in 1..Len(value) : IsAlnum(value[i]) \/ value[i] \in {95, 45}
            \/ \E p \in {BrwSecTxt.PatSk, BrwSecTxt.PatPk, BrwSecTxt.PatApi,
                         BrwSecTxt.PatKey} :
                   /\ StartsWith(ToLowerCase(value), p)
                   /\ Len(value) >= Len(p) + 17
                   /\ value[Len(p) + 1] \in {45, 95}
                   /\ AllAlnum(Rest(value, Len(p) + 1))
        \* the VariableDeclarator visitor of checkHardcodedSecrets
        IsSecretVariableBrowser(node) ==
            /\ node.type = "VariableDeclarator"
            /\ node.id.type = "Identifier"
            /\ node.init.type = "StringLiteral"
            /\ MatchesSecretPatternBrowser(node.id.name)
            /\ Len(node.init.value) >= 8
        paths == TraversePaths(ast)
        IsApiKey(node) == node.type = "StringLiteral" /\ looksLikeApiKey(node.value)
        Matches(i) == IsSecretVariableBrowser(paths[i].node) \/ IsApiKey(paths[i].node)
        Line(i) == paths[i].node.line
        IssueAt(i) ==
            IF IsSecretVariableBrowser(paths[i].node)
            THEN [penalty |-> BROWSER_SECURITY_PENALTIES.HARDCODED_SECRET,
                  comment |-> BrwSecTxt.BrwSecretHead \o paths[i].node.id.name
                                  \o BrwSecTxt.SrvSecretMid
                                 \o NumberToString(Line(i)) \o BrwSecTxt.SrvSecretTail,
                  severity |-> "HIGH"]
            ELSE [penalty |-> BROWSER_SECURITY_PENALTIES.HARDCODED_SECRET,
                  comment |-> BrwSecTxt.BrwApiKeyHead \o NumberToString(Line(i))
                                  \o BrwSecTxt.BrwApiKeyTail,
                  severity |-> "HIGH"]
    IN issues \o VisitOnce(Len(paths), Matches, Line, IssueAt)

checkUnsanitizedInputBrowser(ast, issues) ==
    LET \* an enclosing assignment to innerHTML, outerHTML or textContent
        IsRiskyAssignment(node) ==
            /\ node.type = "AssignmentExpression"
            /\ node.left.type = "MemberExpression"
            /\ node.left.property.type = "Identifier"
            /\ node.left.property.name \in {BrwSecTxt.NameInnerHTML,
                                            BrwSecTxt.NameOuterHTML,
                                            BrwSecTxt.NameTextContent}
        \* the while loop over parentPath: contextName is the property of the last
        \* risky assignment it meets, the outermost one; <<>> when it meets none
        RiskyContextName(ancestors) ==
            LET risky == {i \in 1..Len(ancestors) : IsRiskyAssignment(ancestors[i])}
            IN IF risky = {} THEN <<>>
               ELSE <<ancestors[CHOOSE i \in risky : \A j \in risky : j <= i].left.property.name>>
        \* the TemplateLiteral visitor of checkUnsanitizedInput
        IsUserInputTemplateBrowser(node) ==
            /\ node.type = "TemplateLiteral"
            /\ \E i \in 1..Len(node.expressions) : isUserInputBrowser(node.expressions[i])
        \* the BinaryExpression visitor of checkUnsanitizedInput
        IsRiskyConcatenation(path) ==
            /\ path.node.type = "BinaryExpression"
            /\ path.node.operator = "+"
            /\ (isUserInputBrowser(path.node.left) \/ isUserInputBrowser(path.node.right))
            /\ RiskyContextName(path.ancestors) # <<>>
        paths == TraversePaths(ast)
        Matches(i) == IsUserInputTemplateBrowser(paths[i].node) \/ IsRiskyConcatenation(paths[i])
        Line(i) == paths[i].node.line
        IssueAt(i) ==
            IF IsUserInputTemplateBrowser(paths[i].node)
            THEN [penalty |-> BROWSER_SECURITY_PENALTIES.UNSANITIZED_INPUT,
                  comment |-> BrwSecTxt.BrwTemplateHead \o NumberToString(Line(i))
                                  \o BrwSecTxt.BrwTemplateTail,
                  severity |-> "MEDIUM"]
            ELSE [penalty |-> BROWSER_SECURITY_PENALTIES.UNSANITIZED_INPUT,
                  comment |-> BrwSecTxt.BrwConcatHead
                                  \o RiskyContextName(paths[i].ancestors)[1]
                                 \o BrwSecTxt.BrwConcatMid \o NumberToString(Line(i))
                                 \o BrwSecTxt.BrwConcatTail,
                  severity |-> "HIGH"]
    IN issues \o VisitOnce(Len(paths), Matches, Line, IssueAt)

analyzeSecurityBrowser(ast) ==
    checkUnsanitizedInputBrowser(ast,
        checkHardcodedSecretsBrowser(ast,
            checkChildProcessUsageBrowser(ast,
                checkEvalUsageBrowser(ast, <<>>))))

\* the string literals of src/rules/readability.js,
\* each the sequence of its character codes
ReadTxt ==
    [\* "'"
     TxtQuote |-> <<39>>,
     \* "anonymous at line "
     TxtAnonymousAtLine |-> <<97, 110, 111, 110, 121, 109, 111, 117, 115,
         32, 97, 116, 32, 108, 105, 110, 101, 32>>,
     \* "Function "
     TxtFunction |-> <<70, 117, 110, 99, 116, 105, 111, 110, 32>>,
     \* " is "
     TxtIs |-> <<32, 105, 115, 32>>,
     \* " lines long (max: "
     TxtLinesLong |-> <<32, 108, 105, 110, 101, 115, 32, 108, 111, 110,
         103, 32, 40, 109, 97, 120, 58, 32>>,
     \* "). Consider breaking it into smaller functions."
     TxtBreakSmaller |-> <<41, 46, 32, 67, 111, 110, 115, 105, 100, 101,
         114, 32, 98, 114, 101, 97, 107, 105, 110, 103, 32, 105, 116, 32,
         105, 110, 116, 111, 32, 115, 109, 97, 108, 108, 101, 114, 32, 102,
         117, 110, 99, 116, 105, 111, 110, 115, 46>>,
     \* " has "
     TxtHas |-> <<32, 104, 97, 115, 32>>,
     \* " top-level statements (max: "
     TxtTopLevelStatements |-> <<32, 116, 111, 112, 45, 108, 101, 118,
         101, 108, 32, 115, 116, 97, 116, 101, 109, 101, 110, 116, 115, 32,
         40, 109, 97, 120, 58, 32>>,
     \* "). This may indicate too many responsibilities."
     TxtTooManyResponsibilities |-> <<41, 46, 32, 84, 104, 105, 115, 32,
         109, 97, 121, 32, 105, 110, 100, 105, 99, 97, 116, 101, 32, 116,
         111, 111, 32, 109, 97, 110, 121, 32, 114, 101, 115, 112, 111, 110,
         115, 105, 98, 105, 108, 105, 116, 105, 101, 115, 46>>,
     \* "Variable '"
     TxtVariable |-> <<86, 97, 114, 105, 97, 98, 108, 101, 32, 39>>,
     \* "' has a non-descriptive name ("
     TxtNonDescriptive |-> <<39, 32, 104, 97, 115, 32, 97, 32, 110, 111,
         110, 45, 100, 101, 115, 99, 114, 105, 112, 116, 105, 118, 101, 32,
         110, 97, 109, 101, 32, 40>>,
     \* " chars). Use meaningful names."
     TxtCharsMeaningful |-> <<32, 99, 104, 97, 114, 115, 41, 46, 32, 85,
         115, 101, 32, 109, 101, 97, 110, 105, 110, 103, 102, 117, 108, 32,
         110, 97, 109, 101, 115, 46>>,
     \* "Deep nesting detected at line "
     TxtDeepNesting |-> <<68, 101, 101, 112, 32, 110, 101, 115, 116, 105,
         110, 103, 32, 100, 101, 116, 101, 99, 116, 101, 100, 32, 97, 116,
         32, 108, 105, 110, 101, 32>>,
     \* " (depth: "
     TxtDepth |-> <<32, 40, 100, 101, 112, 116, 104, 58, 32>>,
     \* ", max: "
     TxtMax |-> <<44, 32, 109, 97, 120, 58, 32>>,
     \* "). Consider extracting logic or using early returns."
     TxtExtractLogic |-> <<41, 46, 32, 67, 111, 110, 115, 105, 100, 101,
         114, 32, 101, 120, 116, 114, 97, 99, 116, 105, 110, 103, 32, 108,
         111, 103, 105, 99, 32, 111, 114, 32, 117, 115, 105, 110, 103, 32,
         101, 97, 114, 108, 121, 32, 114, 101, 116, 117, 114, 110, 115, 46>>,
     \* "i"
     NameI |-> <<105>>,
     \* "j"
     NameJ |-> <<106>>,
     \* "k"
     NameK |-> <<107>>,
     \* "n"
     NameN |-> <<110>>,
     \* "x"
     NameX |-> <<120>>,
     \* "y"
     NameY |-> <<121>>,
     \* "z"
     NameZ |-> <<122>>,
     \* "id"
     NameId |-> <<105, 100>>,
     \* "fn"
     NameFn |-> <<102, 110>>,
     \* "cb"
     NameCb |-> <<99, 98>>,
     \* "db"
     NameDb |-> <<100, 98>>,
     \* "fs"
     NameFs |-> <<102, 115>>,
     \* "os"
     NameOs |-> <<111, 115>>,
     \* "e"
     NameE |-> <<101>>,
     \* "ex"
     NameEx |-> <<101, 120>>,
     \* "err"
     NameErr |-> <<101, 114, 114>>,
     \* "_"
     NameUnderscore |-> <<95>>,
     \* "__"
     NameDoubleUnderscore |-> <<95, 95>>]


\* getFunctionName, the same in every detector
getFunctionName(path) ==
    LET Quoted(name) == ReadTxt.TxtQuote \o name \o ReadTxt.TxtQuote
        node == path.node
        parent == Parent(path)
    IN IF node.id.type # "null" /\ Len(node.id.name) > 0 THEN Quoted(node.id.name)
       ELSE IF parent.type = "VariableDeclarator" /\ parent.id.type # "null"
            THEN Quoted(parent.id.name)
            ELSE IF parent.type = "ObjectProperty" /\ parent.key.type # "null"
                 THEN Quoted(IF parent.key.type = "Identifier"
                             THEN parent.key.name ELSE parent.key.value)
                 ELSE ReadTxt.TxtAnonymousAtLine \o NumberToString(node.line)

\* isNestingNode, the same in readability.js and astMetrics.js
isNestingNode(node) ==
    node.type \in {"IfStatement", "ForStatement", "ForInStatement", "ForOfStatement",
                   "WhileStatement", "DoWhileStatement", "SwitchStatement",
                   "TryStatement", "CatchClause"}

\* the while loop over current.parent: the enclosing nodes that nest
calculateNestingDepth(path) ==
    Cardinality({i \in 1..Len(path.ancestors) : isNestingNode(path.ancestors[i])})

(***************************************************************************)
(* Server readability analyzer (src/rules/edgeCases.js, from line 288).     *)
(***************************************************************************)
READABILITY_MAX == 25

READABILITY_PENALTIES ==
    [LONG_FUNCTION |-> 3, DEEP_NESTING |-> 3, POOR_NAMING |-> 2,
     TOO_MANY_STATEMENTS |-> 2]

READABILITY_THRESHOLDS ==
    [MAX_FUNCTION_LINES |-> 40, MAX_NESTING_DEPTH |-> 4, MIN_IDENTIFIER_LENGTH |-> 3,
     MAX_STATEMENTS_PER_FUNCTION |-> 5]

ALLOWED_SHORT_NAMES ==
    {ReadTxt.NameI, ReadTxt.NameJ, ReadTxt.NameK, ReadTxt.NameN, ReadTxt.NameX,
     ReadTxt.NameY, ReadTxt.NameZ, ReadTxt.NameId, ReadTxt.NameFn, ReadTxt.NameCb,
     ReadTxt.NameDb,
     ReadTxt.NameFs, ReadTxt.NameOs, ReadTxt.NameE, ReadTxt.NameEx, ReadTxt.NameErr,
     ReadTxt.NameUnderscore, ReadTxt.NameDoubleUnderscore}

\* the BlockStatement visitor of checkNestingDepth, once per line
checkNestingDepth(ast, issues) ==
    LET paths == TraversePaths(ast)
        Matches(i) ==
            /\ paths[i].node.type = "BlockStatement"
            /\ calculateNestingDepth(paths[i]) > READABILITY_THRESHOLDS.MAX_NESTING_DEPTH
        Line(i) == paths[i].node.line
        IssueAt(i) ==
            [penalty |-> READABILITY_PENALTIES.DEEP_NESTING,
             comment |-> ReadTxt.TxtDeepNesting \o NumberToString(Line(i))
                             \o ReadTxt.TxtDepth
                            \o NumberToString(calculateNestingDepth(paths[i]))
                            \o ReadTxt.TxtMax
                            \o NumberToString(READABILITY_THRESHOLDS.MAX_NESTING_DEPTH)
                            \o ReadTxt.TxtExtractLogic]
    IN issues \o VisitOnce(Len(paths), Matches, Line, IssueAt)

analyzeReadability(ast) ==
    LET \* the function visitor of analyzeReadability
        ReadabilityFunctionAt(path) ==
            LET node == path.node
                lines == node.endLine - node.line + 1
                funcName == getFunctionName(path)
                long ==
                    IF lines > READABILITY_THRESHOLDS.MAX_FUNCTION_LINES
                    THEN <<[penalty |-> READABILITY_PENALTIES.LONG_FUNCTION,
                            comment |-> ReadTxt.TxtFunction \o funcName \o ReadTxt.TxtIs
                                            \o NumberToString(lines)
                                           \o ReadTxt.TxtLinesLong
                                           \o NumberToString(READABILITY_THRESHOLDS.MAX_FUNCTION_LINES)
                                           \o ReadTxt.TxtBreakSmaller]>>
                    ELSE <<>>
                statementCount == Len(node.body.body)
                many ==
                    IF /\ node.body.type = "BlockStatement"
                       /\ statementCount > READABILITY_THRESHOLDS.MAX_STATEMENTS_PER_FUNCTION
                    THEN <<[penalty |-> READABILITY_PENALTIES.TOO_MANY_STATEMENTS,
                            comment |-> ReadTxt.TxtFunction \o funcName
                                            \o ReadTxt.TxtHas
                                           \o NumberToString(statementCount)
                                           \o ReadTxt.TxtTopLevelStatements
                                           \o NumberToString(
                                                  READABILITY_THRESHOLDS.MAX_STATEMENTS_PER_FUNCTION)
                                           \o ReadTxt.TxtTooManyResponsibilities]>>
                    ELSE <<>>
            IN long \o many
        \* the Identifier visitor of analyzeReadability
        ReadabilityIdentifierAt(path) ==
            LET name == path.node.name
                parent == Parent(path)
                isProperty == parent.type = "MemberExpression" /\ path.key = "property"
                isObjectKey ==
                    parent.type = "ObjectProperty" /\ path.key = "key" /\ ~parent.computed
                isDeclaration ==
                    \/ parent.type = "VariableDeclarator"
                    \/ parent.type \in FUNCTION_TYPES
                    \/ path.listKey = "params"
            IN IF /\ ~isProperty
                  /\ ~isObjectKey
                  /\ isDeclaration
                  /\ Len(name) < READABILITY_THRESHOLDS.MIN_IDENTIFIER_LENGTH
                  /\ name \notin ALLOWED_SHORT_NAMES
               THEN <<[penalty |-> READABILITY_PENALTIES.POOR_NAMING,
                       comment |-> ReadTxt.TxtVariable \o name
                                       \o ReadTxt.TxtNonDescriptive
                                      \o NumberToString(Len(name))
                                      \o ReadTxt.TxtCharsMeaningful]>>
               ELSE <<>>
        ReadabilityAt(path) ==
            IF path.node.type \in FUNCTION_TYPES THEN ReadabilityFunctionAt(path)
            ELSE IF path.node.type = "Identifier" THEN ReadabilityIdentifierAt(path)
                 ELSE <<>>
        paths == TraversePaths(ast)
        IssuesAt(i) == ReadabilityAt(paths[i])
    IN checkNestingDepth(ast, VisitEach(Len(paths), IssuesAt))

\* the string literals of src/rules/edgeCases.js,
\* each the sequence of its character codes
EdgeTxt ==
    [\* "Async function "
     TxtAsyncFunction |-> <<65, 115, 121, 110, 99, 32, 102, 117, 110, 99,
         116, 105, 111, 110, 32>>,
     \* " contains await expressions without try/catch error handling."
     SrvAsyncTail |-> <<32, 99, 111, 110, 116, 97, 105, 110, 115, 32, 97,
         119, 97, 105, 116, 32, 101, 120, 112, 114, 101, 115, 115, 105, 111,
         110, 115, 32, 119, 105, 116, 104, 111, 117, 116, 32, 116, 114, 121,
         47, 99, 97, 116, 99, 104, 32, 101, 114, 114, 111, 114, 32, 104, 97,
         110, 100, 108, 105, 110, 103, 46>>,
     \* "Array '"
     SrvArrayHead |-> <<65, 114, 114, 97, 121, 32, 39>>,
     \* "' accessed at line "
     SrvArrayMid |-> <<39, 32, 97, 99, 99, 101, 115, 115, 101, 100, 32,
         97, 116, 32, 108, 105, 110, 101, 32>>,
     \* " without prior length or null check."
     SrvArrayTail |-> <<32, 119, 105, 116, 104, 111, 117, 116, 32, 112,
         114, 105, 111, 114, 32, 108, 101, 110, 103, 116, 104, 32, 111, 114,
         32, 110, 117, 108, 108, 32, 99, 104, 101, 99, 107, 46>>,
     \* "External input '"
     SrvInputHead |-> <<69, 120, 116, 101, 114, 110, 97, 108, 32, 105,
         110, 112, 117, 116, 32, 39>>,
     \* "' used at line "
     SrvInputMid |-> <<39, 32, 117, 115, 101, 100, 32, 97, 116, 32, 108,
         105, 110, 101, 32>>,
     \* " without apparent validation."
     SrvInputTail |-> <<32, 119, 105, 116, 104, 111, 117, 116, 32, 97,
         112, 112, 97, 114, 101, 110, 116, 32, 118, 97, 108, 105, 100, 97,
         116, 105, 111, 110, 46>>,
     \* "length"
     NameLength |-> <<108, 101, 110, 103, 116, 104>>,
     \* "Array"
     NameArray |-> <<65, 114, 114, 97, 121>>,
     \* "isArray"
     NameIsArray |-> <<105, 115, 65, 114, 114, 97, 121>>,
     \* "undefined"
     NameUndefined |-> <<117, 110, 100, 101, 102, 105, 110, 101, 100>>,
     \* "validate"
     PatValidate |-> <<118, 97, 108, 105, 100, 97, 116, 101>>,
     \* "check"
     PatCheck |-> <<99, 104, 101, 99, 107>>,
     \* "verify"
     PatVerify |-> <<118, 101, 114, 105, 102, 121>>,
     \* "sanitize"
     PatSanitize |-> <<115, 97, 110, 105, 116, 105, 122, 101>>,
     \* "parse"
     PatParse |-> <<112, 97, 114, 115, 101>>,
     \* "req"
     NameReq |-> <<114, 101, 113>>,
     \* "request"
     NameRequest |-> <<114, 101, 113, 117, 101, 115, 116>>,
     \* "body"
     NameBody |-> <<98, 111, 100, 121>>,
     \* "query"
     NameQuery |-> <<113, 117, 101, 114, 121>>,
     \* "params"
     NameParams |-> <<112, 97, 114, 97, 109, 115>>,
     \* "headers"
     NameHeaders |-> <<104, 101, 97, 100, 101, 114, 115>>,
     \* "."
     TxtDot |-> <<46>>]

(***************************************************************************)
(* Server edge-case analyzer (src/rules/edgeCases.js).                     *)
(***************************************************************************)
EDGE_CASES_MAX == 25

EDGE_CASE_PENALTIES ==
    [ASYNC_NO_TRY_CATCH |-> 4, UNCHECKED_ARRAY_ACCESS |-> 3,
     UNCHECKED_EXTERNAL_INPUT |-> 3]

\* node.name of a node that may have none
IsNamed(node, name) == node.type = "Identifier" /\ node.name = name

checkAsyncWithoutTryCatch(ast, issues) ==
    LET \* the paths that path.traverse visits below a function when it skips the
        \* nested functions: the paths with no function between them and the function
        BelowSkippingFunctions(path) ==
            LET below == TraverseBelow(path)
                Own(p) == \A i \in 1..(Len(p.ancestors) - Len(path.ancestors) - 1) :
                              p.ancestors[i].type \notin FUNCTION_TYPES
            IN SelectSeq(below, Own)
        \* the function visitor of checkAsyncWithoutTryCatch
        IsAsyncWithoutTryCatch(path) ==
            LET node == path.node
                body == node.body
                hasTryCatch == \E i \in 1..Len(body.body) : body.body[i].type = "TryStatement"
                own == BelowSkippingFunctions(path)
                hasAwait == \E i \in 1..Len(own) : own[i].node.type = "AwaitExpression"
            IN /\ node.type \in FUNCTION_TYPES
               /\ node.async
               /\ body.type = "BlockStatement"
               /\ hasAwait
               /\ ~hasTryCatch
        paths == TraversePaths(ast)
        IssuesAt(i) ==
            IF IsAsyncWithoutTryCatch(paths[i])
            THEN <<[penalty |-> EDGE_CASE_PENALTIES.ASYNC_NO_TRY_CATCH,
                    comment |-> EdgeTxt.TxtAsyncFunction \o getFunctionName(paths[i])
                                   \o EdgeTxt.SrvAsyncTail]>>
            ELSE <<>>
    IN issues \o VisitEach(Len(paths), IssuesAt)

\* isInCondition: the test of the parent if or ternary, or below a logical
\* expression
isInCondition(path) ==
    \/ Parent(path).type \in {"IfStatement",
                              "ConditionalExpression"} /\ path.key = "test"
    \/ \E i \in 1..Len(path.ancestors) : path.ancestors[i].type = "LogicalExpression"

isNullish(node) == node.type = "NullLiteral" \/ IsNamed(node, EdgeTxt.NameUndefined)

\* isSafeArrayAccess: inside a for loop whose test compares with a .length
isSafeArrayAccess(path) ==
    \E i \in 1..Len(path.ancestors) :
        LET current == path.ancestors[i]
            IsLength(side) ==
                side.type = "MemberExpression" /\ IsNamed(side.property,
                                                          EdgeTxt.NameLength)
        IN /\ current.type = "ForStatement"
           /\ current.test.type = "BinaryExpression"
           /\ (IsLength(current.test.left) \/ IsLength(current.test.right))

\* the second pass: a computed access of an identifier that the first pass
\* did not collect, once per name and line
checkUncheckedArrayAccess(ast, issues) ==
    LET \* the first pass of checkUncheckedArrayAccess: what a node adds to
        \* checkedIdentifiers
        CheckedIdentifiersAt(path) ==
            LET node == path.node
            IN CASE node.type = "MemberExpression" ->
                      IF /\ node.property.type = "Identifier"
                         /\ node.property.name = EdgeTxt.NameLength
                         /\ node.object.type = "Identifier"
                         /\ isInCondition(path)
                      THEN {node.object.name} ELSE {}
                 [] node.type = "CallExpression" ->
                      IF /\ node.callee.type = "MemberExpression"
                         /\ IsNamed(node.callee.object, EdgeTxt.NameArray)
                         /\ IsNamed(node.callee.property, EdgeTxt.NameIsArray)
                         /\ Len(node.arguments) > 0
                         /\ node.arguments[1].type = "Identifier"
                         /\ isInCondition(path)
                      THEN {node.arguments[1].name} ELSE {}
                 [] node.type = "BinaryExpression" ->
                      IF node.operator \in {"===", "!==", "==", "!="}
                      THEN (IF node.left.type = "Identifier" /\ isNullish(node.right)
                            THEN {node.left.name} ELSE {})
                               \cup (IF node.right.type = "Identifier" /\ isNullish(node.left)
                                     THEN {node.right.name} ELSE {})
                      ELSE {}
                 [] OTHER -> {}
        paths == TraversePaths(ast)
        checkedIdentifiers == UNION {CheckedIdentifiersAt(paths[i]) : i \in 1..Len(paths)}
        IsAccess(node) ==
            /\ node.type = "MemberExpression"
            /\ node.computed
            /\ node.object.type = "Identifier"
        Matches(i) ==
            /\ IsAccess(paths[i].node)
            /\ paths[i].node.object.name \notin checkedIdentifiers
            /\ ~isSafeArrayAccess(paths[i])
        Key(i) == <<paths[i].node.object.name, paths[i].node.line>>
        IssueAt(i) ==
            [penalty |-> EDGE_CASE_PENALTIES.UNCHECKED_ARRAY_ACCESS,
             comment |-> EdgeTxt.SrvArrayHead \o paths[i].node.object.name
                             \o EdgeTxt.SrvArrayMid
                            \o NumberToString(paths[i].node.line)
                            \o EdgeTxt.SrvArrayTail]
    IN issues \o VisitOnce(Len(paths), Matches, Key, IssueAt)

\* isBeingValidated: below an if statement or an argument of a validator
isBeingValidated(path) ==
    LET \* /^(validate|check|verify|sanitize|parse)/i
        IsValidatorName(name) ==
            \E p \in {EdgeTxt.PatValidate, EdgeTxt.PatCheck, EdgeTxt.PatVerify,
                      EdgeTxt.PatSanitize, EdgeTxt.PatParse} :
                StartsWith(ToLowerCase(name), p)
    IN
    \E i \in 1..Len(path.ancestors) :
        LET current == path.ancestors[i]
        IN \/ current.type = "IfStatement"
           \/ /\ current.type = "CallExpression"
              /\ current.callee.type = "Identifier"
              /\ IsValidatorName(current.callee.name)

\* an input is reported where it is not being validated, was not validated
\* at an earlier path (validatedInputs) and was not reported at its line
\* (reportedInputs)
checkUncheckedExternalInput(ast, issues) ==
    LET \* the MemberExpression visitor of checkUncheckedExternalInput applies to
        \* req.body, req.params, req.query, req.headers and the same of request
        IsExternalInput(node) ==
            /\ node.type = "MemberExpression"
            /\ node.object.type = "Identifier"
            /\ node.object.name \in {EdgeTxt.NameReq, EdgeTxt.NameRequest}
            /\ node.property.type = "Identifier"
            /\ node.property.name \in {EdgeTxt.NameBody, EdgeTxt.NameParams,
                                       EdgeTxt.NameQuery, EdgeTxt.NameHeaders}
        InputPath(node) == node.object.name \o EdgeTxt.TxtDot \o node.property.name
        paths == TraversePaths(ast)
        Matches(i) ==
            /\ IsExternalInput(paths[i].node)
            /\ ~isBeingValidated(paths[i])
            /\ \A j \in 1..(i - 1) :
                   ~(/\ IsExternalInput(paths[j].node)
                     /\ isBeingValidated(paths[j])
                     /\ InputPath(paths[j].node) = InputPath(paths[i].node))
        Key(i) == <<InputPath(paths[i].node), paths[i].node.line>>
        IssueAt(i) ==
            [penalty |-> EDGE_CASE_PENALTIES.UNCHECKED_EXTERNAL_INPUT,
             comment |-> EdgeTxt.SrvInputHead \o InputPath(paths[i].node)
                             \o EdgeTxt.SrvInputMid
                            \o NumberToString(paths[i].node.line)
                            \o EdgeTxt.SrvInputTail]
    IN issues \o VisitOnce(Len(paths), Matches, Key, IssueAt)

analyzeEdgeCases(ast) ==
    checkUncheckedExternalInput(ast,
        checkUncheckedArrayAccess(ast,
            checkAsyncWithoutTryCatch(ast, <<>>)))

\* the string literals of client/src/analysis/rules/edgeCases.browser.js,
\* each the sequence of its character codes
BrwEdgeTxt ==
    [\* "Async function "
     TxtAsyncFunction |-> <<65, 115, 121, 110, 99, 32, 102, 117, 110, 99,
         116, 105, 111, 110, 32>>,
     \* " at line "
     TxtAtLine |-> <<32, 97, 116, 32, 108, 105, 110, 101, 32>>,
     \* " uses await without try/catch. Unhandled rejections may occur."
     BrwAsyncTail |-> <<32, 117, 115, 101, 115, 32, 97, 119, 97, 105,
         116, 32, 119, 105, 116, 104, 111, 117, 116, 32, 116, 114, 121, 47,
         99, 97, 116, 99, 104, 46, 32, 85, 110, 104, 97, 110, 100, 108, 101,
         100, 32, 114, 101, 106, 101, 99, 116, 105, 111, 110, 115, 32, 109,
         97, 121, 32, 111, 99, 99, 117, 114, 46>>,
     \* "Unchecked array access '"
     BrwArrayHead |-> <<85, 110, 99, 104, 101, 99, 107, 101, 100, 32, 97,
         114, 114, 97, 121, 32, 97, 99, 99, 101, 115, 115, 32, 39>>,
     \* "[...]' at line "
     BrwArrayMid |-> <<91, 46, 46, 46, 93, 39, 32, 97, 116, 32, 108, 105,
         110, 101, 32>>,
     \* ". Verify array exists and has expected length."
     BrwArrayTail |-> <<46, 32, 86, 101, 114, 105, 102, 121, 32, 97, 114,
         114, 97, 121, 32, 101, 120, 105, 115, 116, 115, 32, 97, 110, 100,
         32, 104, 97, 115, 32, 101, 120, 112, 101, 99, 116, 101, 100, 32,
         108, 101, 110, 103, 116, 104, 46>>,
     \* "Unchecked external input 'req."
     BrwInputHead |-> <<85, 110, 99, 104, 101, 99, 107, 101, 100, 32,
         101, 120, 116, 101, 114, 110, 97, 108, 32, 105, 110, 112, 117, 116,
         32, 39, 114, 101, 113, 46>>,
     \* "' at line "
     BrwInputMid |-> <<39, 32, 97, 116, 32, 108, 105, 110, 101, 32>>,
     \* ". Validate before use."
     BrwInputTail |-> <<46, 32, 86, 97, 108, 105, 100, 97, 116, 101, 32,
         98, 101, 102, 111, 114, 101, 32, 117, 115, 101, 46>>,
     \* "length"
     NameLength |-> <<108, 101, 110, 103, 116, 104>>,
     \* "Array"
     NameArray |-> <<65, 114, 114, 97, 121>>,
     \* "array"
     NameArrayLower |-> <<97, 114, 114, 97, 121>>,
     \* "isArray"
     NameIsArray |-> <<105, 115, 65, 114, 114, 97, 121>>,
     \* "property"
     NameProperty |-> <<112, 114, 111, 112, 101, 114, 116, 121>>,
     \* "req"
     NameReq |-> <<114, 101, 113>>,
     \* "body"
     NameBody |-> <<98, 111, 100, 121>>,
     \* "query"
     NameQuery |-> <<113, 117, 101, 114, 121>>,
     \* "params"
     NameParams |-> <<112, 97, 114, 97, 109, 115>>,
     \* "."
     TxtDot |-> <<46>>]

(***************************************************************************)
(* Browser edge-case analyzer                                              *)
(* (client/src/analysis/rules/edgeCases.browser.js).                       *)
(***************************************************************************)
BROWSER_EDGE_CASES_MAX == 25

BROWSER_EDGE_CASE_PENALTIES ==
    [ASYNC_NO_TRY_CATCH |-> 4, UNCHECKED_ARRAY_ACCESS |-> 3,
     UNCHECKED_EXTERNAL_INPUT |-> 3]

\* the function visitor of checkAsyncWithoutTryCatch, once per function name
checkAsyncWithoutTryCatchBrowser(ast, issues) ==
    LET paths == TraversePaths(ast)
        HasBelow(path, type) ==
            LET below == TraverseBelow(path)
            IN \E i \in 1..Len(below) : below[i].node.type = type
        Matches(i) ==
            /\ paths[i].node.type \in FUNCTION_TYPES
            /\ paths[i].node.async
            /\ HasBelow(paths[i], "AwaitExpression")
            /\ ~HasBelow(paths[i], "TryStatement")
        \* a function that is not async leaves reportedFunctions alone
        FuncName(i) ==
            IF paths[i].node.type \in FUNCTION_TYPES THEN getFunctionName(paths[i]) ELSE <<>>
        IssueAt(i) ==
            [penalty |-> BROWSER_EDGE_CASE_PENALTIES.ASYNC_NO_TRY_CATCH,
             comment |-> BrwEdgeTxt.TxtAsyncFunction \o FuncName(i)
                             \o BrwEdgeTxt.TxtAtLine
                            \o NumberToString(paths[i].node.line)
                            \o BrwEdgeTxt.BrwAsyncTail]
    IN issues \o VisitOnce(Len(paths), Matches, FuncName, IssueAt)

\* isInCondition: anywhere below an if, a ternary or a logical expression
isInConditionBrowser(path) ==
    \E i \in 1..Len(path.ancestors) :
        path.ancestors[i].type \in {"IfStatement", "ConditionalExpression",
                                    "LogicalExpression"}

\* isSafeArrayAccess: anywhere below a for loop or an optional member access
isSafeArrayAccessBrowser(path) ==
    \E i \in 1..Len(path.ancestors) :
        path.ancestors[i].type \in
            {"ForStatement", "ForOfStatement", "ForInStatement",
             "OptionalMemberExpression"}

\* the second pass: a computed access by a number or an identifier, once per
\* line
checkUncheckedArrayAccessBrowser(ast, issues) ==
    LET \* the first pass of checkUncheckedArrayAccess: what a node adds to
        \* checkedIdentifiers
        CheckedIdentifiersBrowserAt(path) ==
            LET node == path.node
            IN CASE node.type = "MemberExpression" ->
                      IF /\ node.property.type = "Identifier"
                         /\ node.property.name = BrwEdgeTxt.NameLength
                         /\ isInConditionBrowser(path)
                         /\ node.object.type = "Identifier"
                      THEN {node.object.name} ELSE {}
                 [] node.type = "CallExpression" ->
                      IF /\ node.callee.type = "MemberExpression"
                         /\ IsNamed(node.callee.object, BrwEdgeTxt.NameArray)
                         /\ IsNamed(node.callee.property, BrwEdgeTxt.NameIsArray)
                         /\ isInConditionBrowser(path)
                         /\ Len(node.arguments) > 0
                         /\ node.arguments[1].type = "Identifier"
                      THEN {node.arguments[1].name} ELSE {}
                 [] node.type = "BinaryExpression" ->
                      IF /\ node.operator \in {"!=", "!=="}
                         /\ isInConditionBrowser(path)
                         /\ node.left.type = "Identifier"
                         /\ isNullish(node.right)
                      THEN {node.left.name} ELSE {}
                 [] OTHER -> {}
        paths == TraversePaths(ast)
        checkedIdentifiers ==
            UNION {CheckedIdentifiersBrowserAt(paths[i]) : i \in 1..Len(paths)}
        IsAccess(node) ==
            /\ node.type = "MemberExpression"
            /\ node.computed
            /\ node.property.type \in {"NumericLiteral", "Identifier"}
        Matches(i) ==
            /\ IsAccess(paths[i].node)
            /\ ~(/\ paths[i].node.object.type = "Identifier"
                 /\ paths[i].node.object.name \in checkedIdentifiers)
            /\ ~isSafeArrayAccessBrowser(paths[i])
        Line(i) == paths[i].node.line
        ArrayName(node) ==
            IF node.object.type = "Identifier" THEN node.object.name ELSE BrwEdgeTxt.NameArrayLower
        IssueAt(i) ==
            [penalty |-> BROWSER_EDGE_CASE_PENALTIES.UNCHECKED_ARRAY_ACCESS,
             comment |-> BrwEdgeTxt.BrwArrayHead \o ArrayName(paths[i].node)
                             \o BrwEdgeTxt.BrwArrayMid
                            \o NumberToString(Line(i)) \o BrwEdgeTxt.BrwArrayTail]
    IN issues \o VisitOnce(Len(paths), Matches, Line, IssueAt)

\* isBeingValidated: the test of the parent if, or below a typeof
isBeingValidatedBrowser(path) ==
    \/ Parent(path).type = "IfStatement" /\ path.key = "test"
    \/ \E i \in 1..Len(path.ancestors) :
           /\ path.ancestors[i].type = "UnaryExpression"
           /\ path.ancestors[i].operator = "typeof"

checkUncheckedExternalInputBrowser(ast, issues) ==
    LET \* the MemberExpression visitor of checkUncheckedExternalInput applies to a
        \* member of req.body, req.query or req.params
        IsExternalInputBrowser(node) ==
            /\ node.type = "MemberExpression"
            /\ node.object.type = "MemberExpression"
            /\ node.object.object.type = "Identifier"
            /\ node.object.object.name = BrwEdgeTxt.NameReq
            /\ node.object.property.type = "Identifier"
            /\ node.object.property.name \in {BrwEdgeTxt.NameBody, BrwEdgeTxt.NameQuery,
                                              BrwEdgeTxt.NameParams}
        paths == TraversePaths(ast)
        Matches(i) ==
            IsExternalInputBrowser(paths[i].node) /\ ~isBeingValidatedBrowser(paths[i])
        Line(i) == paths[i].node.line
        PropName(node) ==
            IF node.property.type = "Identifier" THEN node.property.name ELSE BrwEdgeTxt.NameProperty
        IssueAt(i) ==
            [penalty |-> BROWSER_EDGE_CASE_PENALTIES.UNCHECKED_EXTERNAL_INPUT,
             comment |-> BrwEdgeTxt.BrwInputHead \o paths[i].node.object.property.name
                             \o BrwEdgeTxt.TxtDot
                            \o PropName(paths[i].node) \o BrwEdgeTxt.BrwInputMid
                            \o NumberToString(Line(i)) \o BrwEdgeTxt.BrwInputTail]
    IN issues \o VisitOnce(Len(paths), Matches, Line, IssueAt)

analyzeEdgeCasesBrowser(ast) ==
    checkUncheckedExternalInputBrowser(ast,
        checkUncheckedArrayAccessBrowser(ast,
            checkAsyncWithoutTryCatchBrowser(ast, <<>>)))

\* the string literals of client/src/analysis/rules/complexity.browser.js,
\* each the sequence of its character codes
BrwCxTxt ==
    [\* "Function "
     TxtFunction |-> <<70, 117, 110, 99, 116, 105, 111, 110, 32>>,
     \* " has cyclomatic complexity of "
     TxtHasComplexity |-> <<32, 104, 97, 115, 32, 99, 121, 99, 108, 111,
         109, 97, 116, 105, 99, 32, 99, 111, 109, 112, 108, 101, 120, 105,
         116, 121, 32, 111, 102, 32>>,
     \* ". Consider simplifying control flow."
     TxtSimplify |-> <<46, 32, 67, 111, 110, 115, 105, 100, 101, 114, 32,
         115, 105, 109, 112, 108, 105, 102, 121, 105, 110, 103, 32, 99, 111,
         110, 116, 114, 111, 108, 32, 102, 108, 111, 119, 46>>,
     \* "Global code has cyclomatic complexity of "
     TxtGlobalCode |-> <<71, 108, 111, 98, 97, 108, 32, 99, 111, 100,
         101, 32, 104, 97, 115, 32, 99, 121, 99, 108, 111, 109, 97, 116, 105,
         99, 32, 99, 111, 109, 112, 108, 101, 120, 105, 116, 121, 32, 111,
         102, 32>>,
     \* ". Consider organizing into functions."
     TxtOrganize |-> <<46, 32, 67, 111, 110, 115, 105, 100, 101, 114, 32,
         111, 114, 103, 97, 110, 105, 122, 105, 110, 103, 32, 105, 110, 116,
         111, 32, 102, 117, 110, 99, 116, 105, 111, 110, 115, 46>>]

(***************************************************************************)
(* Cyclomatic complexity (src/decision/astMetrics.js and, the same code,   *)
(* client/src/analysis/rules/complexity.browser.js).                       *)
(***************************************************************************)

calculateFunctionComplexity(path) ==
    LET \* the visitors of calculateFunctionComplexity: does the node add a path
        AddsComplexity(node) ==
            \/ node.type \in {"IfStatement", "ForStatement", "ForInStatement",
                              "ForOfStatement",
                              "WhileStatement", "DoWhileStatement",
                              "ConditionalExpression",
                              "CatchClause"}
            \/ node.type = "SwitchCase" /\ node.test.type # "null"
            \/ node.type = "LogicalExpression" /\ node.operator \in {"&&", "||", "??"}
        below == TraverseBelow(path)
    IN 1 + Cardinality({i \in 1..Len(below) : AddsComplexity(below[i].node)})

isGlobalLevel(path) ==
    \A i \in 1..Len(path.ancestors) : path.ancestors[i].type \notin FUNCTION_TYPES

calculateGlobalComplexity(ast) ==
    LET \* the visitors of calculateGlobalComplexity, which has none for CatchClause
        AddsGlobalComplexity(node) ==
            \/ node.type \in {"IfStatement", "ForStatement", "ForInStatement",
                              "ForOfStatement",
                              "WhileStatement", "DoWhileStatement",
                              "ConditionalExpression"}
            \/ node.type = "SwitchCase" /\ node.test.type # "null"
            \/ node.type = "LogicalExpression" /\ node.operator \in {"&&", "||", "??"}
        paths == TraversePaths(ast)
    IN 1 + Cardinality({i \in 1..Len(paths) :
                            AddsGlobalComplexity(paths[i].node) /\ isGlobalLevel(paths[i])})

\* MAX_SCORE of complexity.browser.js
BROWSER_COMPLEXITY_MAX == 25

\* getComplexityPenalty adding the penalties of the levels below
getComplexityPenaltyCumulative(complexity) ==
    (IF complexity > 5 THEN 3 ELSE 0) + (IF complexity > 10 THEN 6 ELSE 0)
        + (IF complexity > 15 THEN 10 ELSE 0) + (IF complexity > 20 THEN 15 ELSE 0)

getComplexityPenalty(complexity) ==
    IF complexity <= 5 THEN 0
    ELSE IF complexity <= 10 THEN 3
         ELSE IF complexity <= 15 THEN 6
              ELSE IF complexity <= 20 THEN 10
                   ELSE 15

\* the function visitor of analyzeComplexity pushes an issue for a function
\* whose penalty is positive and counts every function; the global
\* complexity counts when there is no function
analyzeComplexityBrowser(ast) ==
    LET paths == TraversePaths(ast)
        IssuesAt(i) ==
            IF paths[i].node.type \notin FUNCTION_TYPES THEN <<>>
            ELSE LET complexity == calculateFunctionComplexity(paths[i])
                     penalty == getComplexityPenalty(complexity)
                 IN IF penalty > 0
                    THEN <<[penalty |-> penalty,
                            comment |-> BrwCxTxt.TxtFunction
                                            \o getFunctionName(paths[i])
                                           \o BrwCxTxt.TxtHasComplexity
                                           \o NumberToString(complexity)
                                           \o BrwCxTxt.TxtSimplify]>>
                    ELSE <<>>
        issues == VisitEach(Len(paths), IssuesAt)
        functionComplexities == {i \in 1..Len(paths) : paths[i].node.type \in FUNCTION_TYPES}
        globalComplexity == calculateGlobalComplexity(ast)
        penalty == getComplexityPenalty(globalComplexity)
    IN IF functionComplexities = {} /\ penalty > 0
       THEN Append(issues,
                [penalty |-> penalty,
                 comment |-> BrwCxTxt.TxtGlobalCode \o NumberToString(globalComplexity)
                                \o BrwCxTxt.TxtOrganize])
       ELSE issues

(***************************************************************************)
(* Metrics for the review cost index (src/decision/astMetrics.js).         *)
(***************************************************************************)

\* the BlockStatement and function visitors of extractMetrics keep the
\* largest depth, complexity and length and count the functions
extractMetrics(ast) ==
    LET \* the largest member of a set of naturals, 0 for the empty set
        MaxOf(values) == IF values = {} THEN 0 ELSE CHOOSE v \in values : \A w \in values : w <= v
        paths == TraversePaths(ast)
        blocks == {i \in 1..Len(paths) : paths[i].node.type = "BlockStatement"}
        functions == {i \in 1..Len(paths) : paths[i].node.type \in FUNCTION_TYPES}
    IN [maxNestingDepth |-> MaxOf({calculateNestingDepth(paths[i]) : i \in blocks}),
        maxCyclomaticComplexity |->
            IF functions = {} THEN calculateGlobalComplexity(ast)
            ELSE MaxOf({calculateFunctionComplexity(paths[i]) : i \in functions}),
        maxFunctionLength |->
            MaxOf({paths[i].node.endLine - paths[i].node.line + 1 : i \in functions}),
        totalFunctions |-> Cardinality(functions)]
\* the string literals of the verdict engine,
\* each the sequence of its character codes
VerdictTxt ==
    [\* " ("
     TxtOpenParen |-> <<32, 40>>,
     \* "eval"
     NameEval |-> <<101, 118, 97, 108>>,
     \* "child_process"
     NameChildProcess |-> <<99, 104, 105, 108, 100, 95, 112, 114, 111,
         99, 101, 115, 115>>,
     \* "Function()"
     PatFunctionCall |-> <<70, 117, 110, 99, 116, 105, 111, 110, 40,
         41>>,
     \* "APPROVE"
     TxtApprove |-> <<65, 80, 80, 82, 79, 86, 69>>,
     \* "APPROVE_WITH_NITS"
     TxtApproveWithNits |-> <<65, 80, 80, 82, 79, 86, 69, 95, 87, 73, 84,
         72, 95, 78, 73, 84, 83>>,
     \* "REQUEST_CHANGES"
     TxtRequestChanges |-> <<82, 69, 81, 85, 69, 83, 84, 95, 67, 72, 65,
         78, 71, 69, 83>>,
     \* "BLOCK_MERGE"
     TxtBlockMerge |-> <<66, 76, 79, 67, 75, 95, 77, 69, 82, 71, 69>>,
     \* "Code quality meets standards. Ready to merge."
     DescApprove |-> <<67, 111, 100, 101, 32, 113, 117, 97, 108, 105,
         116, 121, 32, 109, 101, 101, 116, 115, 32, 115, 116, 97, 110, 100,
         97, 114, 100, 115, 46, 32, 82, 101, 97, 100, 121, 32, 116, 111, 32,
         109, 101, 114, 103, 101, 46>>,
     \* "Minor issues found. Can proceed but consider addressing."
     DescApproveWithNits |-> <<77, 105, 110, 111, 114, 32, 105, 115, 115,
         117, 101, 115, 32, 102, 111, 117, 110, 100, 46, 32, 67, 97, 110, 32,
         112, 114, 111, 99, 101, 101, 100, 32, 98, 117, 116, 32, 99, 111,
         110, 115, 105, 100, 101, 114, 32, 97, 100, 100, 114, 101, 115, 115,
         105, 110, 103, 46>>,
     \* "Issues need attention before merging."
     DescRequestChanges |-> <<73, 115, 115, 117, 101, 115, 32, 110, 101,
         101, 100, 32, 97, 116, 116, 101, 110, 116, 105, 111, 110, 32, 98,
         101, 102, 111, 114, 101, 32, 109, 101, 114, 103, 105, 110, 103,
         46>>,
     \* "Critical issues detected. Must be resolved."
     DescBlockMerge |-> <<67, 114, 105, 116, 105, 99, 97, 108, 32, 105,
         115, 115, 117, 101, 115, 32, 100, 101, 116, 101, 99, 116, 101, 100,
         46, 32, 77, 117, 115, 116, 32, 98, 101, 32, 114, 101, 115, 111, 108,
         118, 101, 100, 46>>,
     \* "Approve"
     LabelApprove |-> <<65, 112, 112, 114, 111, 118, 101>>,
     \* "Approve with Nits"
     LabelApproveWithNits |-> <<65, 112, 112, 114, 111, 118, 101, 32,
         119, 105, 116, 104, 32, 78, 105, 116, 115>>,
     \* "Request Changes"
     LabelRequestChanges |-> <<82, 101, 113, 117, 101, 115, 116, 32, 67,
         104, 97, 110, 103, 101, 115>>,
     \* "Block Merge"
     LabelBlockMerge |-> <<66, 108, 111, 99, 107, 32, 77, 101, 114, 103,
         101>>,
     \* "\u00e2\u0153\u2026"
     IconApprove |-> <<226, 339, 8230>>,
     \* "\u00f0\u0178\u0178\u00a1"
     IconApproveWithNits |-> <<240, 376, 376, 161>>,
     \* "\u00f0\u0178\u0178\u00a0"
     IconRequestChanges |-> <<240, 376, 376, 160>>,
     \* "\u00f0\u0178\u203a\u2018"
     IconBlockMerge |-> <<240, 376, 8250, 8216>>,
     \* "#22c55e"
     ColorApprove |-> <<35, 50, 50, 99, 53, 53, 101>>,
     \* "#eab308"
     ColorApproveWithNits |-> <<35, 101, 97, 98, 51, 48, 56>>,
     \* "#f97316"
     ColorRequestChanges |-> <<35, 102, 57, 55, 51, 49, 54>>,
     \* "#ef4444"
     ColorBlockMerge |-> <<35, 101, 102, 52, 52, 52, 52>>,
     \* "Score: "
     TxtScore |-> <<83, 99, 111, 114, 101, 58, 32>>,
     \* "/100 \u00e2\u20ac\u201d Verdict: "
     TxtOutOf100Verdict |-> <<47, 49, 48, 48, 32, 226, 8364, 8221, 32,
         86, 101, 114, 100, 105, 99, 116, 58, 32>>,
     \* ". "
     TxtDotSpace |-> <<46, 32>>,
     \* " Pay attention to "
     TxtPayAttention |-> <<32, 80, 97, 121, 32, 97, 116, 116, 101, 110,
         116, 105, 111, 110, 32, 116, 111, 32>>,
     \* "/25)."
     TxtOutOf25 |-> <<47, 50, 53, 41, 46>>,
     \* " Focus on: "
     TxtFocusOn |-> <<32, 70, 111, 99, 117, 115, 32, 111, 110, 58, 32>>,
     \* ", "
     TxtCommaSpace |-> <<44, 32>>,
     \* "."
     TxtDot |-> <<46>>,
     \* ". Score is below minimum threshold ("
     TxtBelowMinimum |-> <<46, 32, 83, 99, 111, 114, 101, 32, 105, 115,
         32, 98, 101, 108, 111, 119, 32, 109, 105, 110, 105, 109, 117, 109,
         32, 116, 104, 114, 101, 115, 104, 111, 108, 100, 32, 40>>,
     \* "). "
     TxtCloseParenDot |-> <<41, 46, 32>>,
     \* "Critical security issues detected: "
     TxtCriticalDetected |-> <<67, 114, 105, 116, 105, 99, 97, 108, 32,
         115, 101, 99, 117, 114, 105, 116, 121, 32, 105, 115, 115, 117, 101,
         115, 32, 100, 101, 116, 101, 99, 116, 101, 100, 58, 32>>,
     \* "eval() usage"
     TypeEvalUsage |-> <<101, 118, 97, 108, 40, 41, 32, 117, 115, 97,
         103, 101>>,
     \* "Function() constructor"
     TypeFunctionConstructor |-> <<70, 117, 110, 99, 116, 105, 111, 110,
         40, 41, 32, 99, 111, 110, 115, 116, 114, 117, 99, 116, 111, 114>>,
     \* "child_process usage"
     TypeChildProcessUsage |-> <<99, 104, 105, 108, 100, 95, 112, 114,
         111, 99, 101, 115, 115, 32, 117, 115, 97, 103, 101>>,
     \* "critical security issue"
     TypeCriticalSecurityIssue |-> <<99, 114, 105, 116, 105, 99, 97, 108,
         32, 115, 101, 99, 117, 114, 105, 116, 121, 32, 105, 115, 115, 117,
         101>>,
     \* "readability"
     NameReadability |-> <<114, 101, 97, 100, 97, 98, 105, 108, 105, 116,
         121>>,
     \* "complexity"
     NameComplexity |-> <<99, 111, 109, 112, 108, 101, 120, 105, 116,
         121>>,
     \* "edgeCases"
     NameEdgeCases |-> <<101, 100, 103, 101, 67, 97, 115, 101, 115>>,
     \* "security"
     NameSecurity |-> <<115, 101, 99, 117, 114, 105, 116, 121>>,
     \* "edge case handling"
     NameEdgeCaseHandling |-> <<101, 100, 103, 101, 32, 99, 97, 115, 101,
         32, 104, 97, 110, 100, 108, 105, 110, 103>>,
     \* "unknown"
     NameUnknown |-> <<117, 110, 107, 110, 111, 119, 110>>,
     \* " "
     TxtSpace |-> <<32>>,
     \* "/100)"
     TxtOutOf100Paren |-> <<47, 49, 48, 48, 41>>]

(***************************************************************************)
(* Verdict engine (client/src/analysis/rules/security.browser.js).         *)
(***************************************************************************)
VERDICTS ==
    [APPROVE |-> "APPROVE", APPROVE_WITH_NITS |-> "APPROVE_WITH_NITS",
     REQUEST_CHANGES |-> "REQUEST_CHANGES", BLOCK_MERGE |-> "BLOCK_MERGE"]

VERDICT_CONFIG ==
    [APPROVE |->
        [label |-> VerdictTxt.LabelApprove, icon |-> VerdictTxt.IconApprove,
         color |-> VerdictTxt.ColorApprove,
         description |-> VerdictTxt.DescApprove],
     APPROVE_WITH_NITS |->
        [label |-> VerdictTxt.LabelApproveWithNits,
         icon |-> VerdictTxt.IconApproveWithNits,
         color |-> VerdictTxt.ColorApproveWithNits,
                       description |-> VerdictTxt.DescApproveWithNits],
     REQUEST_CHANGES |->
        [label |-> VerdictTxt.LabelRequestChanges,
         icon |-> VerdictTxt.IconRequestChanges,
         color |-> VerdictTxt.ColorRequestChanges,
                       description |-> VerdictTxt.DescRequestChanges],
     BLOCK_MERGE |->
        [label |-> VerdictTxt.LabelBlockMerge, icon |-> VerdictTxt.IconBlockMerge,
         color |-> VerdictTxt.ColorBlockMerge,
         description |-> VerdictTxt.DescBlockMerge]]

VERDICT_THRESHOLDS ==
    [APPROVE_MIN |-> 85, APPROVE_WITH_NITS_MIN |-> 75, REQUEST_CHANGES_MIN |-> 65]

\* getScoreBasedVerdict with exclusive lower bounds
getScoreBasedVerdictExclusive(totalScore) ==
    IF totalScore > VERDICT_THRESHOLDS.APPROVE_MIN THEN VERDICTS.APPROVE
    ELSE IF totalScore > VERDICT_THRESHOLDS.APPROVE_WITH_NITS_MIN
         THEN VERDICTS.APPROVE_WITH_NITS
         ELSE IF totalScore > VERDICT_THRESHOLDS.REQUEST_CHANGES_MIN
              THEN VERDICTS.REQUEST_CHANGES
              ELSE VERDICTS.BLOCK_MERGE

getScoreBasedVerdict(totalScore) ==
    IF totalScore >= VERDICT_THRESHOLDS.APPROVE_MIN THEN VERDICTS.APPROVE
    ELSE IF totalScore >= VERDICT_THRESHOLDS.APPROVE_WITH_NITS_MIN
         THEN VERDICTS.APPROVE_WITH_NITS
         ELSE IF totalScore >= VERDICT_THRESHOLDS.REQUEST_CHANGES_MIN
              THEN VERDICTS.REQUEST_CHANGES
              ELSE VERDICTS.BLOCK_MERGE

\* Array.prototype.join
RECURSIVE Join(_, _)
Join(texts, separator) ==
    IF texts = <<>> THEN <<>>
    ELSE IF Len(texts) = 1 THEN texts[1]
         ELSE texts[1] \o separator \o Join(Tail(texts), separator)

\* [...new Set(items)]: the first occurrence of every item, in order
RECURSIVE Distinct(_)
Distinct(items) ==
    IF items = <<>> THEN <<>>
    ELSE LET front == Distinct(SubSeq(items, 1, Len(items) - 1))
             last == items[Len(items)]
         IN IF \E i \in 1..Len(front) : front[i] = last THEN front ELSE Append(front,
                                                                               last)

\* the categories with their scores, a missing category counting as 25
findWeakestCategory(aggregated) ==
    LET categories ==
            <<[name |-> VerdictTxt.NameReadability,
               score |-> aggregated.readability.score],
              [name |-> VerdictTxt.NameComplexity,
               score |-> aggregated.complexity.score],
              [name |-> VerdictTxt.NameEdgeCases, score |-> aggregated.edgeCases.score],
              [name |-> VerdictTxt.NameSecurity, score |-> aggregated.security.score]>>
        Reduce[i \in 1..4] ==
            IF i = 1 THEN categories[1]
            ELSE IF categories[i].score < Reduce[i - 1].score THEN categories[i]
                 ELSE Reduce[i - 1]
    IN Reduce[4]

findSignificantIssues(aggregated) ==
    LET threshold == 15
    IN (IF aggregated.readability.score < threshold THEN <<VerdictTxt.NameReadability>> ELSE <<>>)
       \o (IF aggregated.complexity.score < threshold THEN <<VerdictTxt.NameComplexity>> ELSE <<>>)
       \o (IF aggregated.edgeCases.score < threshold THEN <<VerdictTxt.NameEdgeCaseHandling>> ELSE <<>>)
       \o (IF aggregated.security.score < threshold THEN <<VerdictTxt.NameSecurity>> ELSE <<>>)

\* aggregated is <<>> when the caller passes none
buildExplanation(verdict, totalScore, aggregated) ==
    LET \* the verdict constant as it is interpolated into a template literal
        VerdictText(constant) ==
            CASE constant = "APPROVE" -> VerdictTxt.TxtApprove
              [] constant = "APPROVE_WITH_NITS" -> VerdictTxt.TxtApproveWithNits
              [] constant = "REQUEST_CHANGES" -> VerdictTxt.TxtRequestChanges
              [] constant = "BLOCK_MERGE" -> VerdictTxt.TxtBlockMerge
        config == VERDICT_CONFIG[verdict]
        explanation ==
            VerdictTxt.TxtScore \o NumberToString(totalScore)
            \o VerdictTxt.TxtOutOf100Verdict \o VerdictText(verdict)
    IN CASE verdict = VERDICTS.APPROVE ->
              explanation \o VerdictTxt.TxtDotSpace \o config.description
         [] verdict = VERDICTS.APPROVE_WITH_NITS ->
              explanation \o VerdictTxt.TxtDotSpace \o config.description
                  \o (IF aggregated # <<>>
                      THEN LET weakest == findWeakestCategory(aggregated[1])
                           IN VerdictTxt.TxtPayAttention \o weakest.name
                                  \o VerdictTxt.TxtOpenParen
                                  \o NumberToString(weakest.score)
                                  \o VerdictTxt.TxtOutOf25
                      ELSE <<>>)
         [] verdict = VERDICTS.REQUEST_CHANGES ->
              explanation \o VerdictTxt.TxtDotSpace \o config.description
                  \o (IF aggregated # <<>> /\ findSignificantIssues(aggregated[1]) # <<>>
                      THEN VerdictTxt.TxtFocusOn
                               \o Join(findSignificantIssues(aggregated[1]),
                                       VerdictTxt.TxtCommaSpace)
                               \o VerdictTxt.TxtDot
                      ELSE <<>>)
         [] verdict = VERDICTS.BLOCK_MERGE ->
              explanation \o VerdictTxt.TxtBelowMinimum
                  \o NumberToString(VERDICT_THRESHOLDS.REQUEST_CHANGES_MIN)
                  \o VerdictTxt.TxtCloseParenDot \o config.description

\* analysisResult = [totalScore, criticalIssues, aggregated]; a field the
\* branch does not set (undefined) is <<>>
determineVerdict(analysisResult) ==
    LET \* the type extracted from the comment of a critical issue
        CriticalType(issue) ==
            IF Includes(issue.comment,
                        VerdictTxt.NameEval) THEN VerdictTxt.TypeEvalUsage
            ELSE IF Includes(issue.comment,
                             VerdictTxt.PatFunctionCall) THEN VerdictTxt.TypeFunctionConstructor
                 ELSE IF Includes(issue.comment,
                                  VerdictTxt.NameChildProcess) THEN VerdictTxt.TypeChildProcessUsage
                      ELSE VerdictTxt.TypeCriticalSecurityIssue
        \* i.filename, <<>> (the empty string) when the issue has none
        IssueFilename(issue) == IF "filename" \in DOMAIN issue THEN issue.filename ELSE <<>>
        totalScore == analysisResult.totalScore
        criticalIssues == analysisResult.criticalIssues
        hasCriticalIssues == Len(criticalIssues) > 0
    IN IF hasCriticalIssues
       THEN LET criticalTypes ==
                    Distinct([i \in 1..Len(criticalIssues) |-> CriticalType(criticalIssues[i])])
            IN [verdict |-> VERDICTS.BLOCK_MERGE,
                explanation |-> VerdictTxt.TxtScore \o NumberToString(totalScore)
                                    \o VerdictTxt.TxtOutOf100Verdict
                                    \o VerdictTxt.TxtBlockMerge,
                overrideReason |-> <<VerdictTxt.TxtCriticalDetected
                                     \o Join(criticalTypes, VerdictTxt.TxtCommaSpace)>>,
                details |->
                    [scoreBasedVerdict |-> getScoreBasedVerdict(totalScore),
                     wasOverridden |-> TRUE,
                     criticalIssueCount |-> Len(criticalIssues),
                     criticalIssues |->
                         [i \in 1..Len(criticalIssues) |->
                             [file |-> IF IssueFilename(criticalIssues[i]) # <<>>
                                       THEN IssueFilename(criticalIssues[i])
                                       ELSE VerdictTxt.NameUnknown,
                              issue |-> criticalIssues[i].comment]]]]
       ELSE LET verdict == getScoreBasedVerdict(totalScore)
            IN [verdict |-> verdict,
                explanation |-> buildExplanation(verdict, totalScore,
                                                 analysisResult.aggregated),
                overrideReason |-> <<>>,
                details |->
                    [scoreBasedVerdict |-> verdict,
                     wasOverridden |-> FALSE,
                     thresholds |-> VERDICT_THRESHOLDS]]

getVerdictBadge(verdict, totalScore) ==
    LET config == VERDICT_CONFIG[verdict]
    IN [text |-> config.icon \o VerdictTxt.TxtSpace \o config.label
        \o VerdictTxt.TxtOpenParen
                     \o NumberToString(totalScore) \o VerdictTxt.TxtOutOf100Paren,
        color |-> config.color,
        icon |-> config.icon]

\* the string literals of src/decision/reviewDecision.js,
\* each the sequence of its character codes
DecisionTxt ==
    [\* "Total score "
     TxtTotalScore |-> <<84, 111, 116, 97, 108, 32, 115, 99, 111, 114,
         101, 32>>,
     \* " is below minimum threshold ("
     TxtIsBelowMinimum |-> <<32, 105, 115, 32, 98, 101, 108, 111, 119,
         32, 109, 105, 110, 105, 109, 117, 109, 32, 116, 104, 114, 101, 115,
         104, 111, 108, 100, 32, 40>>,
     \* ")"
     TxtCloseParen |-> <<41>>,
     \* ": "
     TxtColonSpace |-> <<58, 32>>,
     \* "Critical deficiencies in: "
     TxtCriticalDeficiencies |-> <<67, 114, 105, 116, 105, 99, 97, 108,
         32, 100, 101, 102, 105, 99, 105, 101, 110, 99, 105, 101, 115, 32,
         105, 110, 58, 32>>,
     \* " (minimum: "
     TxtMinimum |-> <<32, 40, 109, 105, 110, 105, 109, 117, 109, 58,
         32>>,
     \* ". Code requires significant improvements before review."
     TxtRequiresImprovements |-> <<46, 32, 67, 111, 100, 101, 32, 114,
         101, 113, 117, 105, 114, 101, 115, 32, 115, 105, 103, 110, 105, 102,
         105, 99, 97, 110, 116, 32, 105, 109, 112, 114, 111, 118, 101, 109,
         101, 110, 116, 115, 32, 98, 101, 102, 111, 114, 101, 32, 114, 101,
         118, 105, 101, 119, 46>>,
     \* " indicates code needs refactoring ("
     TxtNeedsRefactoring |-> <<32, 105, 110, 100, 105, 99, 97, 116, 101,
         115, 32, 99, 111, 100, 101, 32, 110, 101, 101, 100, 115, 32, 114,
         101, 102, 97, 99, 116, 111, 114, 105, 110, 103, 32, 40>>,
     \* " points below optimal). "
     TxtPointsBelowOptimal |-> <<32, 112, 111, 105, 110, 116, 115, 32,
         98, 101, 108, 111, 119, 32, 111, 112, 116, 105, 109, 97, 108, 41,
         46, 32>>,
     \* "Address flagged issues to improve maintainability before human review."
     TxtAddressFlagged |-> <<65, 100, 100, 114, 101, 115, 115, 32, 102,
         108, 97, 103, 103, 101, 100, 32, 105, 115, 115, 117, 101, 115, 32,
         116, 111, 32, 105, 109, 112, 114, 111, 118, 101, 32, 109, 97, 105,
         110, 116, 97, 105, 110, 97, 98, 105, 108, 105, 116, 121, 32, 98,
         101, 102, 111, 114, 101, 32, 104, 117, 109, 97, 110, 32, 114, 101,
         118, 105, 101, 119, 46>>,
     \* " is good, but critical security issues detected. Address security concerns before human review."
     TxtGoodButCritical |-> <<32, 105, 115, 32, 103, 111, 111, 100, 44,
         32, 98, 117, 116, 32, 99, 114, 105, 116, 105, 99, 97, 108, 32, 115,
         101, 99, 117, 114, 105, 116, 121, 32, 105, 115, 115, 117, 101, 115,
         32, 100, 101, 116, 101, 99, 116, 101, 100, 46, 32, 65, 100, 100,
         114, 101, 115, 115, 32, 115, 101, 99, 117, 114, 105, 116, 121, 32,
         99, 111, 110, 99, 101, 114, 110, 115, 32, 98, 101, 102, 111, 114,
         101, 32, 104, 117, 109, 97, 110, 32, 114, 101, 118, 105, 101, 119,
         46>>,
     \* "Code quality score "
     TxtCodeQualityScore |-> <<67, 111, 100, 101, 32, 113, 117, 97, 108,
         105, 116, 121, 32, 115, 99, 111, 114, 101, 32>>,
     \* "/100 meets standards for human review."
     TxtMeetsStandards |-> <<47, 49, 48, 48, 32, 109, 101, 101, 116, 115,
         32, 115, 116, 97, 110, 100, 97, 114, 100, 115, 32, 102, 111, 114,
         32, 104, 117, 109, 97, 110, 32, 114, 101, 118, 105, 101, 119, 46>>,
     \* " Reviewer should pay attention to "
     TxtReviewerAttention |-> <<32, 82, 101, 118, 105, 101, 119, 101,
         114, 32, 115, 104, 111, 117, 108, 100, 32, 112, 97, 121, 32, 97,
         116, 116, 101, 110, 116, 105, 111, 110, 32, 116, 111, 32>>,
     \* " ("
     TxtOpenParen |-> <<32, 40>>,
     \* "eval"
     NameEval |-> <<101, 118, 97, 108>>,
     \* "child_process"
     NameChildProcess |-> <<99, 104, 105, 108, 100, 95, 112, 114, 111,
         99, 101, 115, 115>>,
     \* "Function()"
     PatFunctionCall |-> <<70, 117, 110, 99, 116, 105, 111, 110, 40,
         41>>,
     \* "hardcoded secret"
     PatHardcodedSecret |-> <<104, 97, 114, 100, 99, 111, 100, 101, 100,
         32, 115, 101, 99, 114, 101, 116>>,
     \* ". "
     TxtDotSpace |-> <<46, 32>>,
     \* "/25)."
     TxtOutOf25 |-> <<47, 50, 53, 41, 46>>,
     \* ", "
     TxtCommaSpace |-> <<44, 32>>,
     \* "readability"
     NameReadability |-> <<114, 101, 97, 100, 97, 98, 105, 108, 105, 116,
         121>>,
     \* "complexity"
     NameComplexity |-> <<99, 111, 109, 112, 108, 101, 120, 105, 116,
         121>>,
     \* "edgeCases"
     NameEdgeCases |-> <<101, 100, 103, 101, 67, 97, 115, 101, 115>>,
     \* "security"
     NameSecurity |-> <<115, 101, 99, 117, 114, 105, 116, 121>>]

(***************************************************************************)
(* Review decision (src/decision/reviewDecision.js).                       *)
(***************************************************************************)
DECISIONS ==
    [NOT_READY |-> "NOT_READY_FOR_REVIEW", NEEDS_REFACTOR |-> "NEEDS_REFACTOR",
     READY |-> "READY_FOR_HUMAN_REVIEW"]

\* THRESHOLDS with the category minimum one too low
DECISION_THRESHOLDS_LowCategory ==
    [REJECT_TOTAL |-> 65, REJECT_CATEGORY |-> 9, REFACTOR_MAX |-> 80]

DECISION_THRESHOLDS == [REJECT_TOTAL |-> 65, REJECT_CATEGORY |-> 10,
                        REFACTOR_MAX |-> 80]

CRITICAL_SECURITY_PATTERNS ==
    <<DecisionTxt.NameEval, DecisionTxt.PatFunctionCall, DecisionTxt.NameChildProcess,
      DecisionTxt.PatHardcodedSecret>>

\* Object.entries(categoryScores): the categories in insertion order
CATEGORIES == <<"readability", "complexity", "edgeCases", "security">>

\* a category key as it is interpolated into a template literal
CategoryText(category) ==
    CASE category = "readability" -> DecisionTxt.NameReadability
      [] category = "complexity" -> DecisionTxt.NameComplexity
      [] category = "edgeCases" -> DecisionTxt.NameEdgeCases
      [] category = "security" -> DecisionTxt.NameSecurity

\* checkCriticalDeductions lowering the comments but not the patterns
checkCriticalDeductionsPatternCase(comments) ==
    LET lowerComments == [i \in 1..Len(comments) |-> ToLowerCase(comments[i])]
    IN \E p \in 1..Len(CRITICAL_SECURITY_PATTERNS) :
           \E i \in 1..Len(lowerComments) :
               Includes(lowerComments[i], CRITICAL_SECURITY_PATTERNS[p])

checkCriticalDeductions(comments) ==
    LET lowerComments == [i \in 1..Len(comments) |-> ToLowerCase(comments[i])]
    IN \E p \in 1..Len(CRITICAL_SECURITY_PATTERNS) :
           \E i \in 1..Len(lowerComments) :
               Includes(lowerComments[i], ToLowerCase(CRITICAL_SECURITY_PATTERNS[p]))

buildRejectReason(totalScore, failedCategories, categoryScores) ==
    LET failedDetails ==
            Join([i \in 1..Len(failedCategories) |->
                     CategoryText(failedCategories[i]) \o DecisionTxt.TxtColonSpace
                         \o NumberToString(categoryScores[failedCategories[i]])],
                 DecisionTxt.TxtCommaSpace)
        reasons ==
            (IF totalScore < DECISION_THRESHOLDS.REJECT_TOTAL
             THEN <<DecisionTxt.TxtTotalScore \o NumberToString(totalScore)
                    \o DecisionTxt.TxtIsBelowMinimum
                        \o NumberToString(DECISION_THRESHOLDS.REJECT_TOTAL)
                        \o DecisionTxt.TxtCloseParen>>
             ELSE <<>>)
            \o (IF Len(failedCategories) > 0
                THEN <<DecisionTxt.TxtCriticalDeficiencies \o failedDetails
                       \o DecisionTxt.TxtMinimum
                           \o NumberToString(DECISION_THRESHOLDS.REJECT_CATEGORY)
                           \o DecisionTxt.TxtCloseParen>>
                ELSE <<>>)
    IN Join(reasons, DecisionTxt.TxtDotSpace) \o DecisionTxt.TxtRequiresImprovements

buildRefactorReason(totalScore) ==
    LET gap == DECISION_THRESHOLDS.REFACTOR_MAX - totalScore
    IN DecisionTxt.TxtTotalScore \o NumberToString(totalScore)
           \o DecisionTxt.TxtNeedsRefactoring
           \o NumberToString(gap) \o DecisionTxt.TxtPointsBelowOptimal
           \o DecisionTxt.TxtAddressFlagged

\* sort((a, b) => a[1] - b[1])[0]: the first category with the lowest score
buildReadyReason(totalScore, categoryScores) ==
    LET Lowest[i \in 1..4] ==
            IF i = 1 THEN CATEGORIES[1]
            ELSE IF categoryScores[CATEGORIES[i]] < categoryScores[Lowest[i - 1]]
                 THEN CATEGORIES[i] ELSE Lowest[i - 1]
        lowest == Lowest[4]
        message == DecisionTxt.TxtCodeQualityScore \o NumberToString(totalScore)
                       \o DecisionTxt.TxtMeetsStandards
    IN IF categoryScores[lowest] < 20
       THEN message \o DecisionTxt.TxtReviewerAttention \o CategoryText(lowest)
                \o DecisionTxt.TxtOpenParen
                \o NumberToString(categoryScores[lowest]) \o DecisionTxt.TxtOutOf25
       ELSE message

determineDecision(scores) ==
    LET totalScore == scores.totalScore
        categoryScores ==
            [readability |-> scores.readability.score,
             complexity |-> scores.complexity.score,
             edgeCases |-> scores.edgeCases.score, security |-> scores.security.score]
        BelowThreshold(category) ==
            categoryScores[category] < DECISION_THRESHOLDS.REJECT_CATEGORY
        failedCategories == SelectSeq(CATEGORIES, BelowThreshold)
        hasCriticalDeductions == checkCriticalDeductions(scores.security.comments)
        decisionDetails ==
            [totalScore |-> totalScore, categoryScores |-> categoryScores,
             failedCategories |-> failedCategories,
             hasCriticalDeductions |-> hasCriticalDeductions]
    IN IF totalScore < DECISION_THRESHOLDS.REJECT_TOTAL \/ Len(failedCategories) > 0
       THEN [decision |-> DECISIONS.NOT_READY,
             decisionReason |-> buildRejectReason(totalScore, failedCategories,
                                                  categoryScores),
             decisionDetails |-> decisionDetails]
       ELSE IF totalScore <= DECISION_THRESHOLDS.REFACTOR_MAX
            THEN [decision |-> DECISIONS.NEEDS_REFACTOR,
                  decisionReason |-> buildRefactorReason(totalScore),
                  decisionDetails |-> decisionDetails]
            ELSE IF hasCriticalDeductions
                 THEN [decision |-> DECISIONS.NEEDS_REFACTOR,
                       decisionReason |-> DecisionTxt.TxtTotalScore
                                              \o NumberToString(totalScore)
                                              \o DecisionTxt.TxtGoodButCritical,
                       decisionDetails |-> decisionDetails]
                 ELSE [decision |-> DECISIONS.READY,
                       decisionReason |-> buildReadyReason(totalScore, categoryScores),
                       decisionDetails |-> decisionDetails]

\* the string literals of the sources submitted,
\* each the sequence of its character codes
SampleTxt ==
    [\* "fn"
     NameFn |-> <<102, 110>>,
     \* "eval"
     NameEval |-> <<101, 118, 97, 108>>,
     \* "Function"
     NameFunction |-> <<70, 117, 110, 99, 116, 105, 111, 110>>,
     \* "exec"
     NameExec |-> <<101, 120, 101, 99>>,
     \* "execSync"
     NameExecSync |-> <<101, 120, 101, 99, 83, 121, 110, 99>>,
     \* "spawn"
     NameSpawn |-> <<115, 112, 97, 119, 110>>,
     \* "spawnSync"
     NameSpawnSync |-> <<115, 112, 97, 119, 110, 83, 121, 110, 99>>,
     \* "fork"
     NameFork |-> <<102, 111, 114, 107>>,
     \* "child_process"
     NameChildProcess |-> <<99, 104, 105, 108, 100, 95, 112, 114, 111,
         99, 101, 115, 115>>,
     \* "cp"
     NameCp |-> <<99, 112>>,
     \* "require"
     NameRequire |-> <<114, 101, 113, 117, 105, 114, 101>>,
     \* "window"
     NameWindow |-> <<119, 105, 110, 100, 111, 119>>,
     \* "worker"
     NameWorker |-> <<119, 111, 114, 107, 101, 114>>,
     \* "req"
     NameReq |-> <<114, 101, 113>>,
     \* "body"
     NameBody |-> <<98, 111, 100, 121>>,
     \* "input"
     NameInput |-> <<105, 110, 112, 117, 116>>,
     \* "userId"
     NameUserId |-> <<117, 115, 101, 114, 73, 100>>,
     \* "password"
     NamePassword |-> <<112, 97, 115, 115, 119, 111, 114, 100>>,
     \* "innerHTML"
     NameInnerHTML |-> <<105, 110, 110, 101, 114, 72, 84, 77, 76>>,
     \* "hunter2hunter2"
     ValueHunter |-> <<104, 117, 110, 116, 101, 114, 50, 104, 117, 110,
         116, 101, 114, 50>>,
     \* "sk_live4eC39HqLyjWDarjtT1zdp7dc"
     ValueStripeKey |-> <<115, 107, 95, 108, 105, 118, 101, 52, 101, 67,
         51, 57, 72, 113, 76, 121, 106, 87, 68, 97, 114, 106, 116, 84, 49,
         122, 100, 112, 55, 100, 99>>,
     \* "SELECT * FROM users WHERE id = "
     ValueSelect |-> <<83, 69, 76, 69, 67, 84, 32, 42, 32, 70, 82, 79,
         77, 32, 117, 115, 101, 114, 115, 32, 87, 72, 69, 82, 69, 32, 105,
         100, 32, 61, 32>>,
     \* "cmd"
     NameCmd |-> <<99, 109, 100>>,
     \* "el"
     NameEl |-> <<101, 108>>,
     \* "handler"
     NameHandler |-> <<104, 97, 110, 100, 108, 101, 114>>,
     \* "load"
     NameLoad |-> <<108, 111, 97, 100>>,
     \* "fetch"
     NameFetch |-> <<102, 101, 116, 99, 104>>,
     \* "items"
     NameItems |-> <<105, 116, 101, 109, 115>>,
     \* "total"
     NameTotal |-> <<116, 111, 116, 97, 108>>,
     \* "q"
     NameQ |-> <<113>>,
     \* "flag"
     NameFlag |-> <<102, 108, 97, 103>>,
     \* "<b>"
     ValueBold |-> <<60, 98, 62>>,
     \* "Unterminated string constant. (1:8)"
     TxtUnterminatedString |-> <<85, 110, 116, 101, 114, 109, 105, 110,
         97, 116, 101, 100, 32, 115, 116, 114, 105, 110, 103, 32, 99, 111,
         110, 115, 116, 97, 110, 116, 46, 32, 40, 49, 58, 56, 41>>,
     \* "Unexpected token (1:1)"
     TxtUnexpectedToken |-> <<85, 110, 101, 120, 112, 101, 99, 116, 101,
         100, 32, 116, 111, 107, 101, 110, 32, 40, 49, 58, 49, 41>>,
     \* ".js"
     TxtDotJs |-> <<46, 106, 115>>]

(***************************************************************************)
(* Programs.  A program is a sequence of statements, each an instance on   *)
(* a line of one of the statement kinds below.                             *)
(***************************************************************************)
\* req.body.userId
RequestBodyField(line) ==
    MemberExpression(MemberExpression(Identifier(SampleTxt.NameReq),
                                      Identifier(SampleTxt.NameBody), line),
                     Identifier(SampleTxt.NameUserId), line)

\* flag || flag || ... with the given number of operators
RECURSIVE OrChain(_, _)
OrChain(operators, line) ==
    IF operators = 0 THEN Identifier(SampleTxt.NameFlag)
    ELSE LogicalExpression("||", OrChain(operators - 1, line),
                           Identifier(SampleTxt.NameFlag), line)

\* if (flag) { if (flag) { ... } } with the given number of if statements
RECURSIVE NestedIf(_, _)
NestedIf(depth, line) ==
    IfStatement(Identifier(SampleTxt.NameFlag),
                BlockStatement(IF depth = 1 THEN <<>> ELSE <<NestedIf(depth - 1,
                                                                      line + 1)>>,
                               line),
                NullNode, line)

\* eval(eval(... eval(input))) with the given number of calls
RECURSIVE NestedEval(_, _)
NestedEval(calls, line) ==
    CallExpression(Identifier(SampleTxt.NameEval),
                   <<IF calls = 1 THEN Identifier(SampleTxt.NameInput) ELSE NestedEval(calls - 1, line)>>,
                   line)

STATEMENT_KINDS ==
    <<"eval", "nested evals", "Function", "new Function", "window.eval",
      "child_process.exec", "cp.spawn",
      "require.spawnSync", "execSync", "worker.fork", "password", "api key", "template",
      "sql", "innerHTML", "complex function", "long function", "async function",
      "nested ifs", "array access", "request field", "constant">>

Statement(kind, line) ==
    CASE kind = "eval" -> CallExpression(Identifier(SampleTxt.NameEval),
                                         <<Identifier(SampleTxt.NameInput)>>, line)
      [] kind = "nested evals" -> NestedEval(4, line)
      [] kind = "Function" -> CallExpression(Identifier(SampleTxt.NameFunction), <<>>,
                                             line)
      [] kind = "new Function" -> NewExpression(Identifier(SampleTxt.NameFunction),
                                                <<>>, line)
      [] kind = "window.eval" ->
            CallExpression(MemberExpression(Identifier(SampleTxt.NameWindow),
                                            Identifier(SampleTxt.NameEval), line),
                           <<Identifier(SampleTxt.NameInput)>>, line)
      [] kind = "child_process.exec" ->
            CallExpression(
                MemberExpression(Identifier(SampleTxt.NameChildProcess),
                                 Identifier(SampleTxt.NameExec), line),
                <<Identifier(SampleTxt.NameCmd)>>, line)
      [] kind = "cp.spawn" ->
            CallExpression(MemberExpression(Identifier(SampleTxt.NameCp),
                                            Identifier(SampleTxt.NameSpawn), line),
                           <<Identifier(SampleTxt.NameCmd)>>, line)
      [] kind = "require.spawnSync" ->
            CallExpression(
                MemberExpression(
                    CallExpression(Identifier(SampleTxt.NameRequire),
                                   <<StringLiteral(SampleTxt.NameChildProcess, line)>>,
                                   line),
                    Identifier(SampleTxt.NameSpawnSync), line),
                <<Identifier(SampleTxt.NameCmd)>>, line)
      [] kind = "execSync" ->
            CallExpression(Identifier(SampleTxt.NameExecSync),
                           <<Identifier(SampleTxt.NameCmd)>>, line)
      [] kind = "worker.fork" ->
            CallExpression(MemberExpression(Identifier(SampleTxt.NameWorker),
                                            Identifier(SampleTxt.NameFork), line),
                           <<>>, line)
      [] kind = "password" ->
            VariableDeclarator(Identifier(SampleTxt.NamePassword),
                               StringLiteral(SampleTxt.ValueHunter, line), line)
      [] kind = "api key" -> StringLiteral(SampleTxt.ValueStripeKey, line)
      [] kind = "template" -> TemplateLiteral(<<RequestBodyField(line)>>, line)
      [] kind = "sql" ->
            BinaryExpression("+", StringLiteral(SampleTxt.ValueSelect, line),
                             RequestBodyField(line), line)
      [] kind = "innerHTML" ->
            AssignmentExpression(
                MemberExpression(Identifier(SampleTxt.NameEl),
                                 Identifier(SampleTxt.NameInnerHTML), line),
                BinaryExpression("+", StringLiteral(SampleTxt.ValueBold, line),
                                 MemberExpression(Identifier(SampleTxt.NameReq),
                                                  Identifier(SampleTxt.NameBody),
                                                  line),
                                 line),
                line)
      [] kind = "complex function" ->
            FunctionDeclaration(Identifier(SampleTxt.NameHandler),
                                <<Identifier(SampleTxt.NameFlag)>>,
                BlockStatement(<<IfStatement(OrChain(20, line + 1),
                                             BlockStatement(<<>>, line + 1), NullNode,
                                             line + 1)>>,
                               line),
                FALSE, line, line + 2)
      [] kind = "long function" ->
            FunctionDeclaration(Identifier(SampleTxt.NameFn),
                                <<Identifier(SampleTxt.NameQ)>>,
                BlockStatement([i \in 1..6 |-> Identifier(SampleTxt.NameTotal)], line),
                FALSE, line, line + 40)
      [] kind = "async function" ->
            VariableDeclarator(Identifier(SampleTxt.NameLoad),
                ArrowFunctionExpression(<<>>,
                    BlockStatement(
                        <<AwaitExpression(CallExpression(Identifier(SampleTxt.NameFetch), <<>>, line + 1),
                                          line + 1)>>,
                        line),
                    TRUE, line, line + 2),
                line)
      [] kind = "nested ifs" -> NestedIf(5, line)
      [] kind = "array access" ->
            ComputedMemberExpression(Identifier(SampleTxt.NameItems), NumericLiteral(0),
                                     line)
      [] kind = "request field" -> RequestBodyField(line)
      [] kind = "constant" -> VariableDeclarator(Identifier(SampleTxt.NameTotal),
                                                 NumericLiteral(0), line)


(***************************************************************************)
(* Statements that repeat something size times.                            *)
(***************************************************************************)
\* as many statements if (flag) {} as there are decision points
Branches(decisions, line) ==
    [i \in 1..decisions |->
        IfStatement(Identifier(SampleTxt.NameFlag), BlockStatement(<<>>, line),
                    NullNode, line)]

SIZED_KINDS ==
    {"function", "module branches", "module catch", "function catch", "evals"}

SizedStatement(kind, size, line) ==
    CASE kind = "function" ->
            FunctionDeclaration(Identifier(SampleTxt.NameHandler),
                                <<Identifier(SampleTxt.NameFlag)>>,
                                BlockStatement(Branches(size, line + 1), line),
                                FALSE, line, line + 2)
      [] kind = "module branches" -> BlockStatement(Branches(size, line), line)
      [] kind = "module catch" ->
            TryStatement(BlockStatement(Branches(size, line), line),
                         CatchClause(BlockStatement(<<>>, line), line), line)
      [] kind = "function catch" ->
            FunctionDeclaration(Identifier(SampleTxt.NameHandler), <<>>,
                BlockStatement(
                    <<TryStatement(BlockStatement(Branches(size, line + 1), line + 1),
                                   CatchClause(BlockStatement(<<>>, line + 1),
                                               line + 1),
                                   line + 1)>>,
                    line),
                FALSE, line, line + 2)
      [] kind = "evals" ->
            IF size = 0 THEN Identifier(SampleTxt.NameInput)
            ELSE NestedEval(size, line)
      [] OTHER -> Statement(kind, line)
\* the string literals of the parser and the aggregators,
\* each the sequence of its character codes
AnalysisTxt ==
    [\* "["
     TxtOpenBracket |-> <<91>>,
     \* "] "
     TxtCloseBracketSpace |-> <<93, 32>>,
     \* "Code cannot be parsed due to syntax errors."
     TxtParseFailExplanation |-> <<67, 111, 100, 101, 32, 99, 97, 110,
         110, 111, 116, 32, 98, 101, 32, 112, 97, 114, 115, 101, 100, 32,
         100, 117, 101, 32, 116, 111, 32, 115, 121, 110, 116, 97, 120, 32,
         101, 114, 114, 111, 114, 115, 46>>,
     \* "Unable to analyze: code has syntax errors"
     TxtUnableToAnalyze |-> <<85, 110, 97, 98, 108, 101, 32, 116, 111,
         32, 97, 110, 97, 108, 121, 122, 101, 58, 32, 99, 111, 100, 101, 32,
         104, 97, 115, 32, 115, 121, 110, 116, 97, 120, 32, 101, 114, 114,
         111, 114, 115>>,
     \* "Syntax Error: "
     TxtSyntaxErrorPrefix |-> <<83, 121, 110, 116, 97, 120, 32, 69, 114,
         114, 111, 114, 58, 32>>,
     \* "Code has syntax errors and cannot be analyzed."
     TxtSyntaxErrorsReason |-> <<67, 111, 100, 101, 32, 104, 97, 115, 32,
         115, 121, 110, 116, 97, 120, 32, 101, 114, 114, 111, 114, 115, 32,
         97, 110, 100, 32, 99, 97, 110, 110, 111, 116, 32, 98, 101, 32, 97,
         110, 97, 108, 121, 122, 101, 100, 46>>,
     \* "unknown"
     TxtUnknown |-> <<117, 110, 107, 110, 111, 119, 110>>]

(***************************************************************************)
(* Parsing.  A source text is modelled by the statements it is written of, *)
(* one to a line, each named by its kind and its size (the number of       *)
(* operators, calls or statements that the kind repeats), by the text      *)
(* around the statements (white space, a comment, the characters that the  *)
(* parser rejects) and by the message of the error that the Babel parser   *)
(* throws on it.  A value that is not a string has another typeof.         *)
(***************************************************************************)
\* the statements after a comment line; a kind that repeats nothing has
\* size 0
SizedCode(statements, sizes) ==
    [typeof |-> "string", text |-> <<47, 47, 10>>, statements |-> statements,
     sizes |-> sizes, syntaxError |-> <<>>]

SourceCode(statements) == SizedCode(statements, [i \in DOMAIN statements |-> 0])

\* a text of one open brace, on which the parser throws
InvalidCode(message) ==
    [typeof |-> "string", text |-> <<123>>, statements |-> <<>>, sizes |-> <<>>,
     syntaxError |-> <<message>>]

\* a text without statements: the empty string, white space, a comment
TextCode(text) ==
    [typeof |-> "string", text |-> text, statements |-> <<>>, sizes |-> <<>>,
     syntaxError |-> <<>>]

\* a value that is not a string (undefined, a number, an object)
NonStringCode(type) ==
    [typeof |-> type, text |-> <<>>, statements |-> <<>>, sizes |-> <<>>,
     syntaxError |-> <<>>]

\* the body of the program written of statements that repeat nothing
Program(statements) == [i \in 1..Len(statements) |-> Statement(statements[i], i)]

\* parser.parse: the body of the program
SizedProgram(statements, sizes) ==
    [i \in 1..Len(statements) |-> SizedStatement(statements[i], sizes[i], i)]

\* parseCode swallowing the parser's exception
parseCodeSwallowing(code) ==
    IF code.syntaxError = <<>>
    THEN [ast |-> <<SizedProgram(code.statements, code.sizes)>>, error |-> <<>>]
    ELSE [ast |-> <<Program(<<>>)>>, error |-> <<>>]

\* parseCode of parser/astParser.js and parser.browser.js; ast and error are
\* <<>> when null
parseCode(code) ==
    IF code.syntaxError = <<>>
    THEN [ast |-> <<SizedProgram(code.statements, code.sizes)>>, error |-> <<>>]
    ELSE [ast |-> <<>>,
          error |-> <<AnalysisTxt.TxtSyntaxErrorPrefix \o code.syntaxError[1]>>]

(***************************************************************************)
(* Analyzers of which the repository holds one copy only.                  *)
(***************************************************************************)
\* MAX_SCORE of rules/complexity.js
COMPLEXITY_MAX == 25

\* analyzeComplexity of rules/complexity.js, of which complexity.browser.js
\* says it has the same logic
analyzeComplexity(ast) == analyzeComplexityBrowser(ast)

\* MAX_SCORE of rules/readability.browser.js
BROWSER_READABILITY_MAX == 25

\* analyzeReadability of rules/readability.browser.js
analyzeReadabilityBrowser(ast) == analyzeReadability(ast)

(***************************************************************************)
(* Server aggregator (src/scorer/aggregator.js).                           *)
(***************************************************************************)
\* issues.reduce((sum, issue) => sum + issue.penalty, 0)
RECURSIVE TotalPenalty(_)
TotalPenalty(issues) ==
    IF issues = <<>> THEN 0 ELSE Head(issues).penalty + TotalPenalty(Tail(issues))

\* aggregateCategory with a module-level total penalty that is not reset: it
\* grows by one with every call of analyzeCode made before
aggregateCategoryCarrying(maxScore, issues) ==
    [score |-> MathMax(0, maxScore - TotalPenalty(issues) - Len(serverResult)),
     comments |-> [i \in 1..Len(issues) |-> issues[i].comment]]

\* aggregateCategory without the floor at 0
aggregateCategoryUnclamped(maxScore, issues) ==
    [score |-> maxScore - TotalPenalty(issues),
     comments |-> [i \in 1..Len(issues) |-> issues[i].comment]]

aggregateCategory(maxScore, issues) ==
    [score |-> MathMax(0, maxScore - TotalPenalty(issues)),
     comments |-> [i \in 1..Len(issues) |-> issues[i].comment]]

\* analyzeCode: the result for code that does not parse, and otherwise the
\* four analyzers, each aggregated, the total, the decision, the metrics and
\* the review cost index
analyzeCode(code) ==
    LET Unparsed == [score |-> 0, comments |-> <<AnalysisTxt.TxtUnableToAnalyze>>]
        ReviewOf(scores, metrics, decided, reviewCost) ==
            [readability |-> scores.readability,
             complexity |-> scores.complexity,
             edgeCases |-> scores.edgeCases,
             security |-> scores.security,
             totalScore |-> scores.totalScore,
             decision |-> decided.decision,
             decisionReason |-> decided.decisionReason,
             decisionDetails |-> decided.decisionDetails,
             reviewCost |-> reviewCost,
             metrics |-> metrics,
             error |-> <<>>]
        ReviewScores(scores, metrics) ==
            ReviewOf(scores, metrics, determineDecision(scores),
                     calculateRCI(metrics, scores.security.score))
        TotalScores(readability, complexity, edgeCases, security, metrics) ==
            ReviewScores([readability |-> readability, complexity |-> complexity,
                          edgeCases |-> edgeCases, security |-> security,
                          totalScore |-> readability.score + complexity.score
                                             + edgeCases.score + security.score],
                         metrics)
        AnalyzeAst(ast) ==
            TotalScores(aggregateCategory(READABILITY_MAX, analyzeReadability(ast)),
                        aggregateCategory(COMPLEXITY_MAX, analyzeComplexity(ast)),
                        aggregateCategory(EDGE_CASES_MAX, analyzeEdgeCases(ast)),
                        aggregateCategory(SECURITY_MAX, analyzeSecurity(ast)),
                        extractMetrics(ast))
        AnalyzeParsed(parsed) ==
            IF parsed.error # <<>>
            THEN [readability |-> Unparsed,
                  complexity |-> Unparsed,
                  edgeCases |-> Unparsed,
                  security |-> Unparsed,
                  totalScore |-> 0,
                  decision |-> "NOT_READY_FOR_REVIEW",
                  decisionReason |-> AnalysisTxt.TxtSyntaxErrorsReason,
                  reviewCost |->
                      [level |-> "HIGH", score |-> 100, factors |-> <<>>,
                       humanExplanation |-> AnalysisTxt.TxtParseFailExplanation],
                  error |-> parsed.error]
            ELSE AnalyzeAst(parsed.ast[1])
    IN AnalyzeParsed(parseCode(code))

(***************************************************************************)
(* Browser aggregator (client/src/analysis/aggregator.browser.js).         *)
(***************************************************************************)
aggregateCategoryBrowser(maxScore, issues) ==
    [score |-> MathMax(0, maxScore - TotalPenalty(issues)),
     comments |-> [i \in 1..Len(issues) |-> issues[i].comment]]

\* extractCriticalIssues filtering on the wrong severity
extractHighIssues(securityIssues) ==
    SelectSeq(securityIssues, LAMBDA issue : issue.severity = "HIGH")

extractCriticalIssues(securityIssues) ==
    SelectSeq(securityIssues, LAMBDA issue : issue.severity = "CRITICAL")

\* analyzeCode of the browser: the result for code that does not parse, and
\* otherwise the four analyzers, each aggregated, the total and the critical
\* issues among the security issues
analyzeCodeBrowser(code, filename) ==
    LET Unparsed == [score |-> 0, comments |-> <<AnalysisTxt.TxtUnableToAnalyze>>]
        ScoresOf(readability, complexity, edgeCases, security, criticalIssues) ==
            [filename |-> filename,
             readability |-> readability,
             complexity |-> complexity,
             edgeCases |-> edgeCases,
             security |-> security,
             totalScore |-> readability.score + complexity.score + edgeCases.score
                                + security.score,
             criticalIssues |-> criticalIssues,
             error |-> <<>>]
        Aggregate(ast, securityIssues) ==
            ScoresOf(
                aggregateCategoryBrowser(BROWSER_READABILITY_MAX,
                                         analyzeReadabilityBrowser(ast)),
                aggregateCategoryBrowser(BROWSER_COMPLEXITY_MAX,
                                         analyzeComplexityBrowser(ast)),
                aggregateCategoryBrowser(BROWSER_EDGE_CASES_MAX,
                                         analyzeEdgeCasesBrowser(ast)),
                aggregateCategoryBrowser(BROWSER_SECURITY_MAX, securityIssues),
                extractCriticalIssues(securityIssues))
        AnalyzeParsed(parsed) ==
            IF parsed.error # <<>>
            THEN [filename |-> filename,
                  readability |-> Unparsed,
                  complexity |-> Unparsed,
                  edgeCases |-> Unparsed,
                  security |-> Unparsed,
                  totalScore |-> 0,
                  criticalIssues |-> <<>>,
                  error |-> parsed.error]
            ELSE Aggregate(parsed.ast[1], analyzeSecurityBrowser(parsed.ast[1]))
    IN AnalyzeParsed(parseCode(code))

\* analyzeFiles: every file analyzed; a category of the batch is the rounded
\* average of the scores with the comments of every file, each prefixed with
\* its file; the critical issues of every file, each with the name of its file
analyzeFiles(files) ==
    LET RECURSIVE FileComments(_, _)
        FileComments(results, category) ==
            IF results = <<>> THEN <<>>
            ELSE LET result == Head(results)
                     comments == result[category].comments
                 IN [i \in 1..Len(comments) |->
                        AnalysisTxt.TxtOpenBracket \o result.filename
                            \o AnalysisTxt.TxtCloseBracketSpace \o comments[i]]
                        \o FileComments(Tail(results), category)
        RECURSIVE ScoreSum(_, _)
        ScoreSum(results, category) ==
            IF results = <<>> THEN 0
            ELSE Head(results)[category].score + ScoreSum(Tail(results), category)
        RECURSIVE FileCriticalIssues(_)
        FileCriticalIssues(results) ==
            IF results = <<>> THEN <<>>
            ELSE LET result == Head(results)
                     issues == result.criticalIssues
                 IN [i \in 1..Len(issues) |->
                        [penalty |-> issues[i].penalty, comment |-> issues[i].comment,
                         severity |-> issues[i].severity,
                         filename |-> result.filename]]
                        \o FileCriticalIssues(Tail(results))
        AverageCategory(results, category) ==
            [score |-> IF Len(results) > 0
                       THEN MathRound(ScoreSum(results, category), Len(results))
                       ELSE ScoreSum(results, category),
             comments |-> FileComments(results, category)]
        BatchOf(results, readability, complexity, edgeCases, security) ==
            [files |-> results,
             aggregated |->
                 [readability |-> readability, complexity |-> complexity,
                  edgeCases |-> edgeCases, security |-> security,
                  totalScore |-> IF Len(results) > 0
                                 THEN readability.score + complexity.score
                                          + edgeCases.score + security.score
                                 ELSE 0],
             criticalIssues |-> FileCriticalIssues(results)]
        AggregateResults(results) ==
            BatchOf(results,
                    AverageCategory(results, "readability"),
                    AverageCategory(results, "complexity"),
                    AverageCategory(results, "edgeCases"),
                    AverageCategory(results, "security"))
    IN AggregateResults(
           [i \in 1..Len(files) |->
               analyzeCodeBrowser(files[i].content, files[i].filename)])

(***************************************************************************)
(* Browser engine (client/src/analysis/browserEngine.js).  The proof hash  *)
(* and the timestamps of a result are outside the model.                   *)
(***************************************************************************)
analyzeSingleFile(code, filename) ==
    LET ResultOf(result, verdictResult) ==
            [result |-> result,
             totalScore |-> result.totalScore,
             criticalIssues |-> result.criticalIssues,
             verdict |-> verdictResult.verdict,
             verdictExplanation |-> verdictResult.explanation,
             verdictOverrideReason |-> verdictResult.overrideReason,
             verdictDetails |-> verdictResult.details,
             verdictBadge |-> getVerdictBadge(verdictResult.verdict, result.totalScore),
             mode |-> "browser-only"]
        VerdictOf(result) ==
            ResultOf(result,
                determineVerdict([totalScore |-> result.totalScore,
                                  criticalIssues |-> result.criticalIssues,
                                  aggregated |-> <<result>>]))
    IN VerdictOf(analyzeCodeBrowser(code, filename))

analyzeMultipleFiles(files) ==
    LET ResultOf(result, verdictResult) ==
            [files |-> result.files,
             aggregated |-> result.aggregated,
             totalScore |-> result.aggregated.totalScore,
             criticalIssues |-> result.criticalIssues,
             verdict |-> verdictResult.verdict,
             verdictExplanation |-> verdictResult.explanation,
             verdictOverrideReason |-> verdictResult.overrideReason,
             verdictDetails |-> verdictResult.details,
             verdictBadge |->
                 getVerdictBadge(verdictResult.verdict, result.aggregated.totalScore),
             fileCount |-> Len(files),
             mode |-> "browser-only"]
        VerdictOf(result) ==
            ResultOf(result,
                determineVerdict([totalScore |-> result.aggregated.totalScore,
                                  criticalIssues |-> result.criticalIssues,
                                  aggregated |-> <<result.aggregated>>]))
    IN VerdictOf(analyzeFiles(files))

\* the string literals of the core engine wrapper (src/core.js),
\* each the sequence of its character codes
CoreTxt ==
    [\* "Invalid input: "code" must be a string"
     TxtMustBeString |-> <<73, 110, 118, 97, 108, 105, 100, 32, 105, 110,
         112, 117, 116, 58, 32, 34, 99, 111, 100, 101, 34, 32, 109, 117, 115,
         116, 32, 98, 101, 32, 97, 32, 115, 116, 114, 105, 110, 103>>,
     \* "Invalid input: "code" cannot be empty"
     TxtCannotBeEmpty |-> <<73, 110, 118, 97, 108, 105, 100, 32, 105, 110,
         112, 117, 116, 58, 32, 34, 99, 111, 100, 101, 34, 32, 99, 97, 110, 110,
         111, 116, 32, 98, 101, 32, 101, 109, 112, 116, 121>>]

\* the string literals of src/api/analyzeRoute.js,
\* each the sequence of its character codes
RouteTxt ==
    [\* "Invalid request: "code" field must be a string"
     TxtMustBeString |-> <<73, 110, 118, 97, 108, 105, 100, 32, 114, 101,
         113, 117, 101, 115, 116, 58, 32, 34, 99, 111, 100, 101, 34, 32, 102,
         105, 101, 108, 100, 32, 109, 117, 115, 116, 32, 98, 101, 32, 97, 32,
         115, 116, 114, 105, 110, 103>>,
     \* "Invalid request: "code" field cannot be empty"
     TxtCannotBeEmpty |-> <<73, 110, 118, 97, 108, 105, 100, 32, 114, 101,
         113, 117, 101, 115, 116, 58, 32, 34, 99, 111, 100, 101, 34, 32, 102,
         105, 101, 108, 100, 32, 99, 97, 110, 110, 111, 116, 32, 98, 101, 32,
         101, 109, 112, 116, 121>>,
     \* "Internal server error during code analysis"
     TxtInternalError |-> <<73, 110, 116, 101, 114, 110, 97, 108, 32, 115,
         101, 114, 118, 101, 114, 32, 101, 114, 114, 111, 114, 32, 100, 117, 114,
         105, 110, 103, 32, 99, 111, 100, 101, 32, 97, 110, 97, 108, 121, 115,
         105, 115>>]

(***************************************************************************)
(* Entry points of the server: the core engine wrapper and POST /analyze.  *)
(***************************************************************************)
\* String.prototype.trim
Trim(t) ==
    LET kept == {i \in 1..Len(t) : ~IsSpace(t[i])}
    IN IF kept = {} THEN <<>>
       ELSE SubSeq(t, CHOOSE i \in kept : \A j \in kept : i <= j,
                   CHOOSE i \in kept : \A j \in kept : j <= i)

\* code.trim().length: a statement is a character at least
TrimLength(code) == Len(Trim(code.text)) + Len(code.statements)

\* analyze without its input validation
analyzeUnvalidated(code) == [threw |-> <<>>, returned |-> <<analyzeCode(code)>>]

\* analyze: what it throws, or what it returns
analyze(code) ==
    IF code.typeof # "string"
    THEN [threw |-> <<CoreTxt.TxtMustBeString>>, returned |-> <<>>]
    ELSE IF TrimLength(code) = 0
         THEN [threw |-> <<CoreTxt.TxtCannotBeEmpty>>, returned |-> <<>>]
         ELSE [threw |-> <<>>, returned |-> <<analyzeCode(code)>>]

\* new Review({code, scores}), with the _id it is saved under
Review(code, result, id) ==
    [_id |-> id,
     code |-> code,
     scores |-> [readability |-> result.readability,
                 complexity |-> result.complexity,
                 edgeCases |-> result.edgeCases,
                 security |-> result.security,
                 totalScore |-> result.totalScore]]

\* the handler of POST /analyze: the status and the body of the response and
\* the document it saves; saveThrows tells whether review.save() rejects
postAnalyze(code, saveThrows, id) ==
    LET Respond(status, body, saved) ==
            [status |-> status, body |-> body, saved |-> saved]
        Scored(result) ==
            IF result.error # <<>> THEN Respond(422, result, <<>>)
            ELSE IF saveThrows
                 THEN Respond(500, [error |-> RouteTxt.TxtInternalError], <<>>)
                 ELSE Respond(201, Review(code, result, id),
                              <<Review(code, result, id)>>)
    IN IF code.typeof # "string"
       THEN Respond(400, [error |-> RouteTxt.TxtMustBeString], <<>>)
       ELSE IF TrimLength(code) = 0
            THEN Respond(400, [error |-> RouteTxt.TxtCannotBeEmpty], <<>>)
            ELSE CHOOSE reply \in {Scored(result) : result \in {analyzeCode(code)}} :
                     TRUE

(***************************************************************************)
(* Spec: files are submitted and analyzed, by the server's analyzeCode     *)
(* (one source text) or by the browser engine (one file or a batch).       *)
(***************************************************************************)
\* source texts that have no statement: a comment, and two that do not parse
EMPTY_SOURCES ==
    <<SourceCode(<<>>), InvalidCode(SampleTxt.TxtUnexpectedToken),
      InvalidCode(SampleTxt.TxtUnterminatedString)>>

\* file names a.js, b.js, ...
FileName(i) == <<96 + i>> \o SampleTxt.TxtDotJs

\* the batch of count files that holds the statements, file i those after
\* cuts[i] up to cuts[i + 1]; a file without statements is the empty source
\* named by empties[i]
Batch(statements, count, cuts, empties) ==
    [i \in 1..count |->
        [filename |-> FileName(i),
         content |-> IF cuts[i] = cuts[i + 1] THEN EMPTY_SOURCES[empties[i]]
                     ELSE SourceCode(SubSeq(statements, cuts[i] + 1, cuts[i + 1]))]]

\* the ways to cut n statements into count files, and to choose the empty
\* sources
Cuts(n, count) ==
    {c \in [1..(count + 1) -> 0..n] :
        /\ c[1] = 0
        /\ c[count + 1] = n
        /\ \A i \in 1..count : c[i] <= c[i + 1]}

Empties(count, cuts) ==
    {e \in [1..count -> 1..Len(EMPTY_SOURCES)] :
        \A i \in 1..count : cuts[i] < cuts[i + 1] => e[i] = 1}

\* the statements of a source submitted alone, and those of the files of a
\* batch
SOURCE_KINDS ==
    {"eval", "nested evals", "Function", "new Function", "window.eval",
     "child_process.exec",
     "execSync", "password",
     "api key", "sql", "innerHTML", "complex function", "long function",
     "async function", "nested ifs", "array access", "request field", "constant"}

BATCH_KINDS == {"eval", "child_process.exec", "password", "complex function",
                "constant"}

\* one source of at most MaxStatements statements
SubmitSource ==
    \E n \in 0..MaxStatements :
        \E statements \in [1..n -> SOURCE_KINDS], empties \in Empties(1, <<0, n>>) :
            submitted = Batch(statements, 1, <<0, n>>, empties)

\* a batch of at most MaxFiles files that hold at most MaxStatements
\* statements together
SubmitBatch ==
    \E n \in 0..MaxStatements, count \in 2..MaxFiles :
        \E statements \in [1..n -> BATCH_KINDS], cuts \in Cuts(n, count) :
            \E empties \in Empties(count, cuts) :
                submitted = Batch(statements, count, cuts, empties)

Submit == SubmitSource \/ SubmitBatch

Init ==
    /\ Submit
    /\ serverResult = <<>>
    /\ browserResult = <<>>
    /\ IdleRCI /\ IdleVerdict /\ IdleDecision
    /\ IdleEntry /\ IdleSession /\ IdleLambda

Analyzed == serverResult # <<>> \/ browserResult # <<>>

\* the server analyzes the source
AnalyzeCode ==
    /\ Len(submitted) = 1
    /\ ~Analyzed
    /\ serverResult' = <<analyzeCode(submitted[1].content)>>
    /\ UNCHANGED <<submitted, browserResult, rciVars, verdictVars, decisionVars,
                   entryVars, sessionVars, lambdaVars>>

\* handleBrowserAnalyze with one file
AnalyzeSingleFile ==
    /\ Len(submitted) = 1
    /\ ~Analyzed
    /\ browserResult' =
           <<analyzeSingleFile(submitted[1].content, submitted[1].filename)>>
    /\ UNCHANGED <<submitted, serverResult, rciVars, verdictVars, decisionVars,
                   entryVars, sessionVars, lambdaVars>>

\* handleBrowserAnalyze with several files
AnalyzeMultipleFiles ==
    /\ Len(submitted) > 1
    /\ ~Analyzed
    /\ browserResult' = <<analyzeMultipleFiles(submitted)>>
    /\ UNCHANGED <<submitted, serverResult, rciVars, verdictVars, decisionVars,
                   entryVars, sessionVars, lambdaVars>>

Next == AnalyzeCode \/ AnalyzeSingleFile \/ AnalyzeMultipleFiles

Spec == Init /\ [][Next]_vars

(***************************************************************************)
(* Properties of the scoring pipeline.                                     *)
(***************************************************************************)
CATEGORY_KEYS == {"readability", "complexity", "edgeCases", "security"}

Parses(file) == file.content.syntaxError = <<>>

\* the results of analyzeCode that the state holds, each with its file: the
\* server's result, the browser's result of one file, the browser's results
\* of the files of a batch
AnalyzeCodeResults ==
    {[file |-> submitted[1],
      result |-> serverResult[1]] : i \in {1} \cap DOMAIN serverResult}
        \cup {[file |-> submitted[1], result |-> browserResult[1].result] :
                 i \in {j \in DOMAIN browserResult : Len(submitted) = 1}}
        \cup UNION {{[file |-> submitted[k], result |-> browserResult[1].files[k]] :
                        k \in 1..Len(submitted)} :
                       i \in {j \in DOMAIN browserResult : Len(submitted) > 1}}

ScoresInRange(result) ==
    /\ \A c \in CATEGORY_KEYS : result[c].score \in 0..25
    /\ result.totalScore \in 0..100
    /\ result.totalScore =
           result.readability.score + result.complexity.score + result.edgeCases.score
               + result.security.score

\* C1: for every input that parses, analyzeCode (server and browser) returns
\* each of the four category scores in [0,25] and totalScore in [0,100],
\* and totalScore is the sum of the four category scores.
C1_ScoresInRange ==
    \A r \in AnalyzeCodeResults : Parses(r.file) => ScoresInRange(r.result)

\* the server analyzed a program whose security penalties exceed the maximum
\* of the category, and the score is 0
C1_Witness ==
    /\ serverResult # <<>>
    /\ Parses(submitted[1])
    /\ TotalPenalty(analyzeSecurity(Program(submitted[1].content.statements))) > SECURITY_MAX
    /\ serverResult[1].security.score = 0
    /\ serverResult[1].totalScore = 75

\* the server's Security analyzer reported an eval or Function usage, a
\* child-process call or a hardcoded secret or API key
ReportedCritical(ast) ==
    \/ checkEvalUsage(ast, <<>>) # <<>>
    \/ checkChildProcessUsage(ast, <<>>) # <<>>
    \/ checkHardcodedSecrets(ast, <<>>) # <<>>

\* C6: in the server pipeline, READY_FOR_HUMAN_REVIEW is never returned for
\* a program in which the Security analyzer reported an eval or Function
\* usage, a child-process execution call or a hardcoded secret or API key.
C6_CriticalBlocksReady ==
    serverResult # <<>> /\ Parses(submitted[1])
        /\ ReportedCritical(Program(submitted[1].content.statements))
        => serverResult[1].decision # DECISIONS.READY

\* the message of the parser's error
ParserMessage(file) == file.content.syntaxError[1]

AllZero(result) ==
    /\ \A c \in CATEGORY_KEYS : result[c].score = 0
    /\ result.totalScore = 0

\* C10 as stated: when parsing fails the scores are 0, the error field is the
\* non-empty parse error message, and every category's comments carry that
\* message.
C10_ErrorInEveryComment ==
    \A r \in AnalyzeCodeResults :
        ~Parses(r.file) =>
            /\ AllZero(r.result)
            /\ r.result.error # <<>>
            /\ Includes(r.result.error[1], ParserMessage(r.file))
            /\ \A c \in CATEGORY_KEYS :
                   \E i \in 1..Len(r.result[c].comments) :
                       Includes(r.result[c].comments[i], ParserMessage(r.file))

\* C10 (amended): when parsing fails the scores are 0, the error field is
\* "Syntax Error: " followed by the parser's message, and every category's
\* comments hold the one fixed comment that the code has syntax errors.
C10_ErrorInErrorField ==
    \A r \in AnalyzeCodeResults :
        ~Parses(r.file) =>
            /\ AllZero(r.result)
            /\ r.result.error = <<AnalysisTxt.TxtSyntaxErrorPrefix
                                  \o ParserMessage(r.file)>>
            /\ ParserMessage(r.file) # <<>>
            /\ \A c \in CATEGORY_KEYS : r.result[c].comments = <<AnalysisTxt.TxtUnableToAnalyze>>

\* the server and the browser each analyzed a source that does not parse
C10_Witness ==
    /\ Len(submitted) = 1
    /\ ~Parses(submitted[1])
    /\ serverResult # <<>>
    /\ serverResult[1].error # <<>>
    /\ serverResult[1].decision = DECISIONS.NOT_READY


\* the statements that are one line holding calls equivalent to eval
EVAL_KINDS == {"eval", "nested evals", "Function", "new Function", "window.eval"}

\* the source submitted alone holds only lines of eval-equivalent calls and
\* lines without any penalized pattern
OnlyEvalLines ==
    /\ Len(submitted) = 1
    /\ Parses(submitted[1])
    /\ \A i \in DOMAIN submitted[1].content.statements :
           submitted[1].content.statements[i] \in EVAL_KINDS \cup {"constant"}

\* the lines of the submitted source that hold an eval-equivalent call
EvalLines ==
    {i \in DOMAIN submitted[1].content.statements :
        submitted[1].content.statements[i] \in EVAL_KINDS}

\* C13: the security analyzers report eval-equivalent usage (eval(...),
\* Function(...), new Function(...), a member call such as window.eval(...))
\* as exactly one issue per distinct source line that holds such a call, of
\* penalty 8 and severity CRITICAL: the security score of a source with no
\* other security pattern is 25 less 8 for each such line, with one comment
\* for each, in the server's result and in the browser's, whose critical
\* issues are these issues
C13_OneEvalIssuePerLine ==
    OnlyEvalLines =>
        /\ serverResult # <<>> =>
               /\ serverResult[1].security.score
                      = MathMax(0, SECURITY_MAX - 8 * Cardinality(EvalLines))
               /\ Len(serverResult[1].security.comments) = Cardinality(EvalLines)
        /\ browserResult # <<>> =>
               /\ browserResult[1].result.security.score
                      = MathMax(0, BROWSER_SECURITY_MAX - 8 * Cardinality(EvalLines))
               /\ Len(browserResult[1].result.security.comments)
                      = Cardinality(EvalLines)
               /\ Len(browserResult[1].criticalIssues) = Cardinality(EvalLines)
               /\ \A i \in DOMAIN browserResult[1].criticalIssues :
                      /\ browserResult[1].criticalIssues[i].penalty = 8
                      /\ browserResult[1].criticalIssues[i].severity = "CRITICAL"

\* the result of the browser's analyzeCode for file i of the batch
FileResult(i) == analyzeCodeBrowser(submitted[i].content, submitted[i].filename)

\* the sum of the scores of a category over the first count results
RECURSIVE CategorySum(_, _, _)
CategorySum(results, count, category) ==
    IF count = 0 THEN 0
    ELSE results[count][category].score + CategorySum(results, count - 1, category)

\* q is the integer nearest to sum / count, the upper one of two
IsNearestInteger(q, sum, count) ==
    /\ 2 * count * q <= 2 * sum + count
    /\ 2 * sum + count < 2 * count * (q + 1)

\* the critical issues of a result, each with the name of file i
AnnotatedCriticalIssues(result, i) ==
    [k \in DOMAIN result.criticalIssues |->
        [penalty |-> result.criticalIssues[k].penalty,
         comment |-> result.criticalIssues[k].comment,
         severity |-> result.criticalIssues[k].severity,
         filename |-> submitted[i].filename]]

\* C14: analyzeFiles over n >= 1 files returns the per-file results in
\* input order; every aggregated category score is the sum of the category's
\* per-file scores divided by n and rounded, an average; the aggregated
\* total is the sum of the four aggregated category scores and lies in
\* 0..100; and the critical issues are those of every file, in file order,
\* each with the name of its file
C14_BatchAverages ==
    (Len(submitted) > 1 /\ browserResult # <<>>) =>
        LET batch == browserResult[1]
            n == Len(submitted)
        IN /\ batch.files = [i \in 1..n |-> FileResult(i)]
           /\ \A category \in CATEGORY_KEYS :
                  IsNearestInteger(batch.aggregated[category].score,
                                   CategorySum(batch.files, n, category), n)
           /\ batch.aggregated.totalScore
                  = batch.aggregated.readability.score
                        + batch.aggregated.complexity.score
                        + batch.aggregated.edgeCases.score
                        + batch.aggregated.security.score
           /\ batch.aggregated.totalScore \in 0..100
           /\ batch.criticalIssues
                  = Flatten([i \in 1..n |->
                                AnnotatedCriticalIssues(batch.files[i], i)])

\* a batch was analyzed in which the scores of a category do not add up to
\* a multiple of the number of files, and the second file has a critical
\* issue
C14_Witness ==
    /\ Len(submitted) > 1
    /\ browserResult # <<>>
    /\ \E category \in CATEGORY_KEYS :
           CategorySum(browserResult[1].files, Len(submitted), category)
               % Len(submitted) # 0
    /\ \E k \in DOMAIN browserResult[1].criticalIssues :
           browserResult[1].criticalIssues[k].filename = submitted[2].filename

\* the number of places of the text where the pattern starts
Occurrences(t, p) ==
    Cardinality({i \in 1..(Len(t) - Len(p) + 1) :
                    \A j \in 1..Len(p) : t[i + j - 1] = p[j]})

\* the statements that are a critical issue of each kind: calls of eval,
\* uses of the Function constructor, calls of a method of child_process
CRITICAL_STATEMENTS ==
    [eval |-> {"eval", "nested evals", "window.eval"},
     Function |-> {"Function", "new Function"},
     child_process |-> {"child_process.exec"}]

\* the name of each kind in the override reason
CRITICAL_KIND_NAMES ==
    [eval |-> VerdictTxt.TypeEvalUsage,
     Function |-> VerdictTxt.TypeFunctionConstructor,
     child_process |-> VerdictTxt.TypeChildProcessUsage]

\* a file of the analyzed batch that parses holds a statement of the kind
KindPresent(kind) ==
    \E i \in DOMAIN submitted :
        /\ Parses(submitted[i])
        /\ \E j \in DOMAIN submitted[i].content.statements :
               submitted[i].content.statements[j] \in CRITICAL_STATEMENTS[kind]

\* C19: when determineVerdict overrides to BLOCK_MERGE, the override reason
\* names each distinct kind of critical issue present, once ('eval() usage'
\* for eval calls, 'Function() constructor' for Function(...) and new
\* Function(...), 'child_process usage' for child-process calls); a kind
\* that is not present is not named, and 'critical security issue' is not
\* named when every critical issue is of these kinds
C19_OverrideNamesKindsPresent ==
    (browserResult # <<>> /\ browserResult[1].verdictOverrideReason # <<>>) =>
        LET reason == browserResult[1].verdictOverrideReason[1]
        IN /\ \A kind \in DOMAIN CRITICAL_STATEMENTS :
                  Occurrences(reason, CRITICAL_KIND_NAMES[kind])
                      = (IF KindPresent(kind) THEN 1 ELSE 0)
           /\ Occurrences(reason, VerdictTxt.TypeCriticalSecurityIssue) = 0

\* the source submitted alone holds only async functions that await without
\* any try statement (const load = async () => { await fetch(); }) and
\* statements without any penalized pattern
OnlyAsyncFunctions ==
    /\ Len(submitted) = 1
    /\ Parses(submitted[1])
    /\ \A i \in DOMAIN submitted[1].content.statements :
           submitted[1].content.statements[i] \in {"async function", "constant"}

\* the offending async functions of the submitted source, one for each statement
AsyncFunctions ==
    {i \in DOMAIN submitted[1].content.statements :
        submitted[1].content.statements[i] = "async function"}

\* C21: the edge-cases analyzers (server and browser) penalize with 4 each
\* async function whose own body holds an await and no try statement, once for
\* each such function, and two distinct offending functions are both penalized
\* even when they have the same name: the edge-cases score of a source with no
\* other edge-case pattern is 25 less 4 for each such function, with one
\* comment for each
C21_EachAsyncFunctionPenalized ==
    OnlyAsyncFunctions =>
        /\ serverResult # <<>> =>
               /\ serverResult[1].edgeCases.score
                      = EDGE_CASES_MAX - 4 * Cardinality(AsyncFunctions)
               /\ Len(serverResult[1].edgeCases.comments) = Cardinality(AsyncFunctions)
        /\ browserResult # <<>> =>
               /\ browserResult[1].result.edgeCases.score
                      = BROWSER_EDGE_CASES_MAX - 4 * Cardinality(AsyncFunctions)
               /\ Len(browserResult[1].result.edgeCases.comments)
                      = Cardinality(AsyncFunctions)
(***************************************************************************)
(* SpecEntry: one value is handed to an entry point: the core engine's     *)
(* analyze, POST /analyze, or the browser engine's analyzeSingleFile.      *)
(***************************************************************************)
\* the empty string and strings of white space
BLANK_TEXTS == {<<>>, <<32>>, <<10, 9, 32>>}

\* typeof of the values that are not strings
NON_STRING_TYPES == {"undefined", "number", "object"}

InitEntry ==
    /\ \/ \E n \in 0..MaxStatements :
              \E statements \in [1..n -> BATCH_KINDS],
                 empties \in Empties(1, <<0, n>>) :
                  submitted = Batch(statements, 1, <<0, n>>, empties)
       \/ \E text \in BLANK_TEXTS :
              submitted = <<[filename |-> FileName(1), content |-> TextCode(text)]>>
       \/ \E type \in NON_STRING_TYPES :
              submitted =
                  <<[filename |-> FileName(1), content |-> NonStringCode(type)]>>
    /\ serverResult = <<>>
    /\ browserResult = <<>>
    /\ IdleEntry /\ IdleSession /\ IdleLambda
    /\ IdleRCI /\ IdleVerdict /\ IdleDecision

\* the core engine's analyze is called with the value
Analyze ==
    /\ ~Analyzed
    /\ response = <<>>
    /\ response' = <<analyze(submitted[1].content)>>
    /\ UNCHANGED <<pipelineVars, reviews, sessionVars, lambdaVars, rciVars, verdictVars,
                   decisionVars>>

\* the value is posted to /analyze as the code field of the body
PostAnalyze ==
    /\ ~Analyzed
    /\ response = <<>>
    /\ \E saveThrows \in BOOLEAN :
           \E reply \in {postAnalyze(submitted[1].content, saveThrows,
                                     Len(reviews) + 1)} :
               /\ response' = <<[status |-> reply.status, body |-> reply.body]>>
               /\ reviews' = reviews \o reply.saved
    /\ UNCHANGED <<pipelineVars, sessionVars, lambdaVars, rciVars, verdictVars, decisionVars>>

\* the browser engine analyzes the text of a file
AnalyzeText ==
    /\ submitted[1].content.typeof = "string"
    /\ response = <<>>
    /\ AnalyzeSingleFile

NextEntry == Analyze \/ PostAnalyze \/ AnalyzeText

SpecEntry == InitEntry /\ [][NextEntry]_vars

(***************************************************************************)
(* Properties of the entry points.                                         *)
(***************************************************************************)
\* the value is not a string, or is a string that is empty after trim()
IsBlank(code) == code.typeof # "string" \/ TrimLength(code) = 0

\* the outcome of the server's entry point is a validation error
ServerRejected ==
    /\ "threw" \in DOMAIN response[1] =>
           response[1].threw # <<>> /\ response[1].returned = <<>>
    /\ "status" \in DOMAIN response[1] =>
           /\ response[1].status = 400
           /\ DOMAIN response[1].body = {"error"}
           /\ reviews = <<>>

\* C11: for an input that is empty, white space or not a string, every
\* entry point (analyze, POST /analyze, the browser's analyzeCode and
\* analyzeSingleFile) rejects with a validation error and never returns a
\* scored result.
C11_BlankInputRejected ==
    IsBlank(submitted[1].content) =>
        /\ response # <<>> => ServerRejected
        /\ browserResult = <<>>

(***************************************************************************)
(* SpecComplexity: a source of one or two statements that hold at most     *)
(* MaxBranches branches together, in a function or at module level, is     *)
(* analyzed by the server or by the browser.                               *)
(***************************************************************************)
COMPLEXITY_KINDS == {"function", "function catch", "module branches", "module catch"}

InitComplexity ==
    /\ \E n \in 1..2 :
           \E statements \in [1..n -> COMPLEXITY_KINDS],
              sizes \in [1..n -> 0..MaxBranches] :
               /\ sizes[1] + sizes[n] <= (IF n = 1 THEN 2 ELSE 1) * MaxBranches
               /\ submitted = <<[filename |-> FileName(1),
                              content |-> SizedCode(statements, sizes)]>>
    /\ serverResult = <<>>
    /\ browserResult = <<>>
    /\ IdleRCI /\ IdleVerdict /\ IdleDecision
    /\ IdleEntry /\ IdleSession /\ IdleLambda

NextComplexity == AnalyzeCode \/ AnalyzeSingleFile

SpecComplexity == InitComplexity /\ [][NextComplexity]_vars

(***************************************************************************)
(* Properties of the complexity analyzers.                                 *)
(***************************************************************************)
\* the statements of the submitted source that are functions
SubmittedFunctions ==
    {i \in DOMAIN submitted[1].content.statements :
        submitted[1].content.statements[i] \in {"function", "function catch"}}

\* the decision points written in statement i of the submitted source: its
\* branches, and its catch clause
WrittenDecisions(i) ==
    submitted[1].content.sizes[i]
        + (IF submitted[1].content.statements[i] \in {"function catch", "module catch"}
           THEN 1 ELSE 0)

\* the penalty of a complexity: one tier
Tier(c) ==
    CASE c <= 5 -> 0
      [] c \in 6..10 -> 3
      [] c \in 11..15 -> 6
      [] c \in 16..20 -> 10
      [] c >= 21 -> 15

\* the sum of the terms at the indices
RECURSIVE SumOver(_, _)
SumOver(indices, terms) ==
    IF indices = {} THEN 0
    ELSE LET i == CHOOSE j \in indices : TRUE
         IN terms[i] + SumOver(indices \ {i}, terms)

\* C12: the browser's complexity analyzer gives every function the penalty
\* of the single tier of its cyclomatic complexity c (0 if c <= 5, 3 if
\* 6..10, 6 if 11..15, 10 if 16..20, 15 if c >= 21) and at most one issue,
\* for the functions whose tier is positive: the complexity score of a source
\* with functions is 25 less the tiers of its functions, not below 0, with
\* one comment for each function of complexity above 5
C12_SingleTierPerFunction ==
    (browserResult # <<>> /\ SubmittedFunctions # {}) =>
        LET TierOf(i) == Tier(1 + WrittenDecisions(i))
            complexity == browserResult[1].result.complexity
        IN /\ complexity.score
                  = MathMax(0, BROWSER_COMPLEXITY_MAX
                                   - SumOver(SubmittedFunctions,
                                             [i \in SubmittedFunctions |-> TierOf(i)]))
           /\ Len(complexity.comments)
                  = Cardinality({i \in SubmittedFunctions : TierOf(i) > 0})

\* a function of complexity exactly 21 was analyzed alone and lost 15
C12_Witness ==
    /\ browserResult # <<>>
    /\ submitted[1].content.statements = <<"function">>
    /\ submitted[1].content.sizes = <<20>>
    /\ browserResult[1].result.complexity.score = 10
    /\ Len(browserResult[1].result.complexity.comments) = 1

\* the decision points written at module level in a source without function
ModuleDecisions ==
    SumOver(DOMAIN submitted[1].content.statements,
            [i \in DOMAIN submitted[1].content.statements |-> WrittenDecisions(i)])

\* C20: when the program has no function, the browser's complexity analyzer
\* and extractMetrics count module-level code as they count a function: the
\* global complexity is 1 + the number of module-level decision points,
\* catch clauses among them, and the penalty schedule is applied to it
C20_GlobalCountsLikeFunction ==
    SubmittedFunctions = {} =>
        /\ browserResult # <<>> =>
               browserResult[1].result.complexity.score
                   = BROWSER_COMPLEXITY_MAX - Tier(1 + ModuleDecisions)
        /\ serverResult # <<>> =>
               serverResult[1].metrics.maxCyclomaticComplexity = 1 + ModuleDecisions
(***************************************************************************)
(* SpecCalls: two source texts are analyzed, at most MaxCalls times, in    *)
(* any order and as often as wanted, by the server's analyzeCode and by    *)
(* the browser's; every call and its result is kept.                       *)
(***************************************************************************)
CALL_SOURCES ==
    {SourceCode(<<kind>>) :
        kind \in {"eval", "nested evals", "array access", "async function",
                  "complex function", "password"}}
        \cup {SourceCode(<<>>), InvalidCode(SampleTxt.TxtUnexpectedToken)}

InitCalls ==
    /\ \E first \in CALL_SOURCES, second \in CALL_SOURCES :
           submitted = <<[filename |-> FileName(1), content |-> first],
                         [filename |-> FileName(2), content |-> second]>>
    /\ serverResult = <<>>
    /\ browserResult = <<>>
    /\ IdleRCI /\ IdleVerdict /\ IdleDecision
    /\ IdleEntry /\ IdleSession /\ IdleLambda

\* the server's analyzeCode is called with one of the texts
CallAnalyzeCode ==
    /\ Len(serverResult) + Len(browserResult) < MaxCalls
    /\ \E i \in DOMAIN submitted :
           serverResult' =
               Append(serverResult,
                      [input |-> i, result |-> analyzeCode(submitted[i].content)])
    /\ UNCHANGED <<submitted, browserResult, rciVars, verdictVars, decisionVars,
                   entryVars, sessionVars, lambdaVars>>

\* the browser's analyzeCode is called with one of the texts, under its
\* default file name
CallAnalyzeCodeBrowser ==
    /\ Len(serverResult) + Len(browserResult) < MaxCalls
    /\ \E i \in DOMAIN submitted :
           browserResult' =
               Append(browserResult,
                      [input |-> i,
                       result |-> analyzeCodeBrowser(submitted[i].content,
                                                     AnalysisTxt.TxtUnknown)])
    /\ UNCHANGED <<submitted, serverResult, rciVars, verdictVars, decisionVars,
                   entryVars, sessionVars, lambdaVars>>

NextCalls == CallAnalyzeCode \/ CallAnalyzeCodeBrowser

SpecCalls == InitCalls /\ [][NextCalls]_vars

\* calls made on identical source text returned identical results
SameTextSameResult(calls) ==
    \A a, b \in DOMAIN calls :
        submitted[calls[a].input].content = submitted[calls[b].input].content
            => calls[a].result = calls[b].result

C23_SecurityAnalyzersAgree ==
    \A a \in DOMAIN serverResult, b \in DOMAIN browserResult :
        submitted[serverResult[a].input].content
                = submitted[browserResult[b].input].content
            => /\ serverResult[a].result.security.score
                      = browserResult[b].result.security.score
               /\ Len(serverResult[a].result.security.comments)
                      = Len(browserResult[b].result.security.comments)
(***************************************************************************)
(* SpecGrow: a source is analyzed by the browser, then one more instance   *)
(* of a penalized pattern is added at its end and it is analyzed again.    *)
(***************************************************************************)
\* the instances of penalized patterns that are added, each a statement
\* kind and its size: functions of complexity 6 and 11, calls equivalent to
\* eval, a child process call, a hardcoded secret, an async function
\* without try/catch and an unchecked array access
PENALIZED_INSTANCES ==
    {<<"function", 5>>, <<"function", 10>>, <<"eval", 0>>, <<"window.eval", 0>>,
     <<"child_process.exec", 0>>, <<"password", 0>>, <<"async function", 0>>,
     <<"array access", 0>>}

\* the statements of the source before any is added: the instances, code
\* at module level with 5 and 10 branches, and a line without any pattern
GROWN_STATEMENTS ==
    PENALIZED_INSTANCES
        \cup {<<"module branches", 5>>, <<"module branches", 10>>, <<"constant", 0>>}

InitGrow ==
    /\ \E n \in 0..MaxStatements :
           \E chosen \in [1..n -> GROWN_STATEMENTS] :
               submitted =
                   <<[filename |-> FileName(1),
                      content |-> SizedCode([i \in 1..n |-> chosen[i][1]],
                                            [i \in 1..n |-> chosen[i][2]])]>>
    /\ serverResult = <<>>
    /\ browserResult = <<>>
    /\ IdleRCI /\ IdleVerdict /\ IdleDecision
    /\ IdleEntry /\ IdleSession /\ IdleLambda

\* one more instance of a penalized pattern is written at the end of the
\* analyzed source, nothing else changes, and the source is analyzed again
AddPattern ==
    /\ browserResult # <<>>
    /\ Len(submitted[1].content.statements) <= MaxStatements
    /\ \E instance \in PENALIZED_INSTANCES :
           LET grown == SizedCode(Append(submitted[1].content.statements,
                                         instance[1]),
                                  Append(submitted[1].content.sizes, instance[2]))
           IN /\ submitted' = <<[filename |-> submitted[1].filename,
                                 content |-> grown]>>
              /\ browserResult' = <<analyzeSingleFile(grown, submitted[1].filename)>>
    /\ UNCHANGED <<serverResult, rciVars, verdictVars, decisionVars, entryVars,
                   sessionVars, lambdaVars>>

NextGrow == AnalyzeSingleFile \/ AddPattern

SpecGrow == InitGrow /\ [][NextGrow]_vars

\* C16: monotonicity: when one more instance of a penalized pattern is
\* added to a program and nothing else changes, every category score of the
\* new program is less than or equal to the same score of the old one
C16_AddingNeverRaisesScore ==
    [][(browserResult # <<>> /\ browserResult' # <<>>) =>
          \A category \in CATEGORY_KEYS :
              browserResult'[1].result[category].score
                  <= browserResult[1].result[category].score]_vars
\* the string literals of the GitHub service, the local history service,
\* the submit page and the result page, and an owner, a repository, a
\* branch, a commit and an extension that is not supported,
\* each the sequence of its character codes
SessionTxt ==
    [\* ".js"
     ExtJs |-> <<46, 106, 115>>,
     \* ".ts"
     ExtTs |-> <<46, 116, 115>>,
     \* ".jsx"
     ExtJsx |-> <<46, 106, 115, 120>>,
     \* ".tsx"
     ExtTsx |-> <<46, 116, 115, 120>>,
     \* "local_"
     TxtLocalPrefix |-> <<108, 111, 99, 97, 108, 95>>,
     \* "null"
     TxtNull |-> <<110, 117, 108, 108>>,
     \* "/review/"
     TxtReviewRoute |-> <<47, 114, 101, 118, 105, 101, 119, 47>>,
     \* "/api/reviews/"
     TxtApiReviews |-> <<47, 97, 112, 105, 47, 114, 101, 118, 105, 101, 119,
         115, 47>>,
     \* "/"
     TxtSlash |-> <<47>>,
     \* "devreview"
     TxtDevreview |-> <<100, 101, 118, 114, 101, 118, 105, 101, 119>>,
     \* "owner"
     TxtOwner |-> <<111, 119, 110, 101, 114>>,
     \* "repo"
     TxtRepo |-> <<114, 101, 112, 111>>,
     \* "main"
     TxtMain |-> <<109, 97, 105, 110>>,
     \* "c0ffee"
     TxtHeadSha |-> <<99, 48, 102, 102, 101, 101>>,
     \* ".md"
     TxtDotMd |-> <<46, 109, 100>>]

(***************************************************************************)
(* GitHub service (client/src/services/githubService.js).  The remote      *)
(* side is a record: the type of the URL ("repo" or "pr"), whether the     *)
(* listing request succeeds, and the items GitHub lists, each with its     *)
(* path, its size in bytes, its status in the pull request and its raw     *)
(* content (<<>> when the raw request fails); every item is a blob.        *)
(***************************************************************************)
GITHUB_API_BASE == "https://api.github.com"

RAW_CONTENT_BASE == "https://raw.githubusercontent.com"

SUPPORTED_EXTENSIONS ==
    <<SessionTxt.ExtJs, SessionTxt.ExtTs, SessionTxt.ExtJsx, SessionTxt.ExtTsx>>

DEFAULT_MAX_FILES == 20

MAX_FILE_SIZE == 500000

LIMITS == [MAX_FILES |-> DEFAULT_MAX_FILES, MAX_FILE_SIZE |-> MAX_FILE_SIZE]

\* String.prototype.endsWith
EndsWith(t, p) ==
    /\ Len(p) <= Len(t)
    /\ SubSeq(t, Len(t) - Len(p) + 1, Len(t)) = p

\* SUPPORTED_EXTENSIONS.some(ext => path.endsWith(ext))
IsSupported(path) ==
    \E i \in DOMAIN SUPPORTED_EXTENSIONS : EndsWith(path, SUPPORTED_EXTENSIONS[i])

\* a request that fetch sends: the base of its URL, the resource asked for
\* and the part of the URL that names a file or a review
Request(base, resource, name) == [base |-> base, resource |-> resource, name |-> name]

\* fetchRepoFiles for ref = 'HEAD': the default branch is asked for, then the
\* tree; the blobs with a supported extension and a size of at most
\* MAX_FILE_SIZE are kept
fetchRepoFiles(remote) ==
    LET asked == <<Request(GITHUB_API_BASE, "/repos/owner/repo", <<>>),
                   Request(GITHUB_API_BASE, "/repos/owner/repo/git/trees/ref", <<>>)>>
        supported == SelectSeq(remote.items, LAMBDA item : IsSupported(item.path))
        mapped == [i \in DOMAIN supported |->
                      [path |-> supported[i].path, size |-> supported[i].size]]
        files == SelectSeq(mapped, LAMBDA f : f.size <= MAX_FILE_SIZE)
    IN IF ~remote.ok
       THEN [requests |-> asked, threw |-> TRUE, files |-> <<>>, ref |-> <<>>]
       ELSE [requests |-> asked, threw |-> FALSE, files |-> files,
             ref |-> SessionTxt.TxtMain]

\* fetchPRFiles: the files of the pull request and its details are asked
\* for; the files not removed that have a supported extension are kept
fetchPRFiles(remote) ==
    LET asked == <<Request(GITHUB_API_BASE, "/repos/owner/repo/pulls/number/files",
                           <<>>)>>
        detail == <<Request(GITHUB_API_BASE, "/repos/owner/repo/pulls/number", <<>>)>>
        kept == SelectSeq(remote.items,
                          LAMBDA file : file.status # "removed"
                                            /\ IsSupported(file.path))
        files == [i \in DOMAIN kept |->
                     [path |-> kept[i].path, status |-> kept[i].status]]
    IN IF ~remote.ok
       THEN [requests |-> asked, threw |-> TRUE, files |-> <<>>, ref |-> <<>>]
       ELSE [requests |-> asked \o detail, threw |-> FALSE, files |-> files,
             ref |-> SessionTxt.TxtHeadSha]

\* handleFetchFiles of GitHubInputPanel: the listing for the type of the URL;
\* onFilesLoaded is called when it has files, and the page keeps them
handleFetchFiles(remote) ==
    LET Loaded(result) ==
            [requests |-> result.requests,
             githubData |-> IF result.threw \/ Len(result.files) = 0 THEN <<>>
                            ELSE <<[files |-> result.files, ref |-> result.ref,
                                    type |-> remote.type]>>]
    IN IF remote.type = "pr" THEN Loaded(fetchPRFiles(remote))
       ELSE Loaded(fetchRepoFiles(remote))

\* fetchFileContent: the raw content is asked for; the response is not ok
\* when GitHub has no content at the path
fetchFileContent(remote, path) ==
    LET found == SelectSeq(remote.items, LAMBDA item : item.path = path)
    IN [request |-> Request(RAW_CONTENT_BASE, "/owner/repo/ref/path", path),
        content |-> IF found = <<>> THEN <<>> ELSE found[1].raw]

\* one turn of a loop that ends at the first fetch that fails
fetchMultipleFilesStepAborting(remote, loop) ==
    LET path == loop.paths[loop.i + 1]
        fetched == fetchFileContent(remote, path)
        call == [current |-> loop.i + 1, total |-> Len(loop.paths),
                 currentFile |-> <<path>>]
    IN IF fetched.content = <<>>
       THEN [loop EXCEPT !.i = Len(loop.paths), !.asked = <<fetched.request>>]
       ELSE [loop EXCEPT
                !.i = loop.i + 1,
                !.asked = <<fetched.request>>,
                !.results = Append(loop.results,
                                   [filename |-> path, content |-> fetched.content[1]]),
                !.calls = Append(loop.calls, call),
                !.progress = call]

\* one turn of the loop of fetchMultipleFiles: the content of paths[i + 1] is
\* fetched and pushed, or skipped when the fetch failed, and onProgress
\* (setFetchProgress) is called; calls are the calls of onProgress so far
fetchMultipleFilesStep(remote, loop) ==
    LET path == loop.paths[loop.i + 1]
        fetched == fetchFileContent(remote, path)
        call == [current |-> loop.i + 1, total |-> Len(loop.paths),
                 currentFile |-> <<path>>]
    IN [loop EXCEPT
           !.i = loop.i + 1,
           !.asked = <<fetched.request>>,
           !.results = IF fetched.content = <<>> THEN loop.results
                       ELSE Append(loop.results,
                                   [filename |-> path, content |-> fetched.content[1]]),
           !.calls = Append(loop.calls, call),
           !.progress = call]

(***************************************************************************)
(* File selector (client/src/components/FileSelector.jsx).                 *)
(***************************************************************************)
\* files.slice(0, maxFiles).map(f => f.path)
FirstPaths(files) ==
    [i \in 1..MathMin(Len(files), LIMITS.MAX_FILES) |-> files[i].path]

\* handleToggleFile without the test of the maximum
handleToggleFileUnlimited(prev, path) ==
    IF \E i \in DOMAIN prev : prev[i] = path
    THEN SelectSeq(prev, LAMBDA p : p # path)
    ELSE Append(prev, path)

handleToggleFile(prev, path) ==
    IF \E i \in DOMAIN prev : prev[i] = path
    THEN SelectSeq(prev, LAMBDA p : p # path)
    ELSE IF Len(prev) >= LIMITS.MAX_FILES THEN prev
         ELSE Append(prev, path)

(***************************************************************************)
(* Local history (client/src/services/localHistoryService.js) and the      *)
(* result page (client/src/pages/ResultPage.jsx).                          *)
(***************************************************************************)
MAX_HISTORY_ITEMS == 50

\* saveToHistory without the limit of the history size
saveToHistoryUnlimited(stored, review, stamp, storageThrows) ==
    LET id == SessionTxt.TxtLocalPrefix \o NumberToString(stamp)
        historyItem == [createdAt |-> stamp, isLocal |-> TRUE]
                           @@ review
                           @@ [_id |-> id]
    IN IF storageThrows THEN [history |-> stored, id |-> <<>>]
       ELSE [history |-> <<historyItem>> \o stored, id |-> <<id>>]

\* saveToHistory: the item is the review under the generated id, with the
\* fields of the review written over the id ({_id: id, ...review}) and
\* createdAt and isLocal written over the review's; it is put first and
\* the list is cut to MAX_HISTORY_ITEMS; the id is returned, and null (<<>>)
\* when the storage throws. stamp stands for Date.now() and the random part
\* of the id, and for new Date()
saveToHistory(stored, review, stamp, storageThrows) ==
    LET id == SessionTxt.TxtLocalPrefix \o NumberToString(stamp)
        historyItem == [createdAt |-> stamp, isLocal |-> TRUE]
                           @@ review
                           @@ [_id |-> id]
        unshifted == <<historyItem>> \o stored
    IN IF storageThrows THEN [history |-> stored, id |-> <<>>]
       ELSE [history |-> SubSeq(unshifted, 1,
                                MathMin(Len(unshifted), MAX_HISTORY_ITEMS)),
             id |-> <<id>>]

\* getReviewById: the first item of that id, or null (<<>>)
getReviewById(stored, id) ==
    LET found == SelectSeq(stored, LAMBDA item : item._id = id)
    IN IF found = <<>> THEN <<>> ELSE <<found[1]>>

\* deleteFromHistory: the items of another id are written back; true is
\* returned, and false when the storage throws
deleteFromHistory(stored, id, storageThrows) ==
    IF storageThrows THEN [history |-> stored, returned |-> FALSE]
    ELSE [history |-> SelectSeq(stored, LAMBDA item : item._id # id),
          returned |-> TRUE]

\* clearHistory: the key is removed
clearHistory(stored, storageThrows) ==
    IF storageThrows THEN [history |-> stored, returned |-> FALSE]
    ELSE [history |-> <<>>, returned |-> TRUE]

isLocalId(id) == Len(id) > 0 /\ StartsWith(id, SessionTxt.TxtLocalPrefix)

\* the id in `/review/${localId}`: the text of the id, and "null" for null
TemplateId(localId) == IF localId = <<>> THEN SessionTxt.TxtNull ELSE localId[1]

\* the base of the backend's URL, VITE_API_URL or the page's own origin
API_URL == "API_URL"

\* the effect of ResultPage: a local id is looked up in the local history,
\* any other id is asked of the backend
ResultPageEffect(stored, id) ==
    IF isLocalId(id)
    THEN [requests |-> <<>>, review |-> getReviewById(stored, id)]
    ELSE [requests |-> <<Request(API_URL, "/api/reviews/id", id)>>,
          review |-> <<>>]
(***************************************************************************)
(* SpecSession: a session of the browser-only mode.  The files behind a    *)
(* GitHub URL are listed, files are selected, their contents are fetched   *)
(* one by one and analyzed in the browser, the result is saved to the      *)
(* local history and the result page is opened.                            *)
(***************************************************************************)
\* what can be special about one item of a listing
SPECIAL_ITEMS ==
    {"none", "big", "at limit", "unsupported", "removed", "unfetchable"}

\* the item at place i of a listing whose item at place `at` is special; the
\* first file calls eval and the others hold a constant
ListedItem(i, special, at) ==
    [path |-> IF special = "unsupported" /\ i = at
              THEN <<96 + i>> \o SessionTxt.TxtDotMd
              ELSE FileName(i),
     size |-> IF special = "big" /\ i = at THEN MAX_FILE_SIZE + 1
              ELSE IF special = "at limit" /\ i = at THEN MAX_FILE_SIZE
                   ELSE 1000 + i,
     status |-> IF special = "removed" /\ i = at THEN "removed" ELSE "modified",
     raw |-> IF special = "unfetchable" /\ i = at THEN <<>>
             ELSE <<SourceCode(<<IF i = 1 THEN "eval" ELSE "constant">>)>>]

\* the numbers of items of the listings: few, the most that may be selected,
\* and more
LISTED_COUNTS == {1, 2, DEFAULT_MAX_FILES, MaxListed}

InitSession ==
    /\ \E type \in {"repo", "pr"}, ok \in BOOLEAN, n \in LISTED_COUNTS,
          special \in SPECIAL_ITEMS :
           \E at \in {1, n} :
               /\ ~ok => (special = "none" /\ n = 1)
               /\ special = "none" => at = 1
               /\ github = [type |-> type, ok |-> ok,
                            items |-> [i \in 1..n |-> ListedItem(i, special, at)]]
    /\ githubData = <<>>
    /\ selectedFiles = <<>>
    /\ fetching = <<>>
    /\ requests = <<>>
    /\ history = <<>>
    /\ historyCalls = <<>>
    /\ location = <<>>
    /\ submitted = <<>>
    /\ serverResult = <<>>
    /\ browserResult = <<>>
    /\ IdleRCI /\ IdleVerdict /\ IdleDecision /\ IdleEntry /\ IdleLambda

\* the panel and the selector can be used: no analysis runs and the result
\* page is not open
Selecting == githubData # <<>> /\ fetching = <<>> /\ location = <<>>

\* handleFetchFiles, and the effect of the file selector that selects the
\* first files of the listing
FetchFiles ==
    /\ githubData = <<>>
    /\ requests = <<>>
    /\ LET loaded == handleFetchFiles(github)
       IN /\ requests' = loaded.requests
          /\ githubData' = loaded.githubData
          /\ selectedFiles' = IF loaded.githubData = <<>> THEN <<>>
                              ELSE FirstPaths(loaded.githubData[1].files)
    /\ UNCHANGED <<lambdaVars, historyCalls, fetching, history, location, pipelineVars, rciVars, verdictVars,
                   decisionVars, entryVars, github>>

\* handleToggleFile on the first or the last file listed
ToggleFile ==
    /\ Selecting
    /\ \E i \in {1, Len(githubData[1].files)} :
           selectedFiles' = handleToggleFile(selectedFiles, githubData[1].files[i].path)
    /\ UNCHANGED <<lambdaVars, historyCalls, github, githubData, fetching, requests, history, location,
                   pipelineVars, rciVars, verdictVars, decisionVars, entryVars>>

\* handleSelectAll
SelectAll ==
    /\ Selecting
    /\ selectedFiles' = FirstPaths(githubData[1].files)
    /\ UNCHANGED <<lambdaVars, historyCalls, github, githubData, fetching, requests, history, location,
                   pipelineVars, rciVars, verdictVars, decisionVars, entryVars>>

\* handleDeselectAll
DeselectAll ==
    /\ Selecting
    /\ selectedFiles' = <<>>
    /\ UNCHANGED <<lambdaVars, historyCalls, github, githubData, fetching, requests, history, location,
                   pipelineVars, rciVars, verdictVars, decisionVars, entryVars>>

\* handleBrowserAnalyze up to the call of fetchMultipleFiles, which starts
\* its loop over the selected paths
BrowserAnalyze ==
    /\ Selecting
    /\ selectedFiles # <<>>
    /\ Len(requests) + Len(selectedFiles) <= MaxRequests
    /\ fetching' = <<[paths |-> selectedFiles, i |-> 0, asked |-> <<>>,
                      results |-> <<>>, calls |-> <<>>,
                      progress |-> [current |-> 0, total |-> Len(selectedFiles),
                                    currentFile |-> <<>>]]>>
    /\ UNCHANGED <<lambdaVars, historyCalls, github, githubData, selectedFiles, requests, history, location,
                   pipelineVars, rciVars, verdictVars, decisionVars, entryVars>>

\* one turn of the loop of fetchMultipleFiles
FetchNext ==
    /\ fetching # <<>>
    /\ fetching[1].i < Len(fetching[1].paths)
    /\ LET loop == fetchMultipleFilesStep(github, fetching[1])
       IN /\ fetching' = <<loop>>
          /\ requests' = requests \o loop.asked
    /\ UNCHANGED <<lambdaVars, historyCalls, github, githubData, selectedFiles, history, location,
                   pipelineVars, rciVars, verdictVars, decisionVars, entryVars>>

\* the rest of handleBrowserAnalyze when no file was fetched: the error is
\* shown
AnalyzeNothing ==
    /\ fetching # <<>>
    /\ fetching[1].i = Len(fetching[1].paths)
    /\ fetching[1].results = <<>>
    /\ fetching' = <<>>
    /\ UNCHANGED <<lambdaVars, historyCalls, github, githubData, selectedFiles, requests, history, location,
                   pipelineVars, rciVars, verdictVars, decisionVars, entryVars>>

\* the rest of handleBrowserAnalyze: the fetched files are analyzed, the
\* result is saved to the local history and the result page is navigated to
AnalyzeFetched ==
    /\ fetching # <<>>
    /\ fetching[1].i = Len(fetching[1].paths)
    /\ fetching[1].results # <<>>
    /\ submitted' = fetching[1].results
    /\ \E storageThrows \in BOOLEAN :
           \E result \in {IF Len(fetching[1].results) = 1
                          THEN analyzeSingleFile(fetching[1].results[1].content,
                                                 fetching[1].results[1].filename)
                          ELSE analyzeMultipleFiles(fetching[1].results)} :
               \E review \in {[source |-> SessionTxt.TxtOwner \o SessionTxt.TxtSlash
                                              \o SessionTxt.TxtRepo] @@ result} :
                   \E saved \in {saveToHistory(history, review, Len(history) + 1,
                                               storageThrows)} :
                       /\ browserResult' = <<result>>
                       /\ history' = saved.history
                       /\ historyCalls' =
                              Append(historyCalls,
                                     [op |-> "saveToHistory", review |-> <<review>>,
                                      id |-> <<>>, returned |-> saved.id])
                       /\ location' =
                              <<[id |-> TemplateId(saved.id), loaded |-> FALSE]>>
    /\ fetching' = <<>>
    /\ UNCHANGED <<lambdaVars, github, githubData, selectedFiles, requests, serverResult, rciVars,
                   verdictVars, decisionVars, entryVars>>

\* the effect of the result page that was navigated to
LoadResult ==
    /\ location # <<>>
    /\ ~location[1].loaded
    /\ requests' = requests \o ResultPageEffect(history, location[1].id).requests
    /\ location' = <<[location[1] EXCEPT !.loaded = TRUE]>>
    /\ UNCHANGED <<lambdaVars, historyCalls, github, githubData, selectedFiles, fetching, history,
                   pipelineVars, rciVars, verdictVars, decisionVars, entryVars>>

NextSession ==
    \/ FetchFiles \/ ToggleFile \/ SelectAll \/ DeselectAll \/ BrowserAnalyze
    \/ FetchNext \/ AnalyzeNothing \/ AnalyzeFetched \/ LoadResult

SpecSession == InitSession /\ [][NextSession]_vars

(***************************************************************************)
(* Properties of the browser-only mode.                                    *)
(***************************************************************************)
GITHUB_HOSTS == {GITHUB_API_BASE, RAW_CONTENT_BASE}

\* C17: in browser-only mode, along every path of handleBrowserAnalyze (the
\* fetch of the selected files, the analysis, saveToHistory and the
\* navigation) the only network requests are to GitHub hosts and none is
\* sent to the backend API
C17_OnlyGitHubRequests ==
    \A i \in DOMAIN requests : requests[i].base \in GITHUB_HOSTS

\* the size in bytes that GitHub has for the file at the path
SizeAt(path) ==
    LET found == SelectSeq(github.items, LAMBDA item : item.path = path)
    IN found[1].size

\* C18: the caps are enforced before the analyzer sees any content: for
\* repository URLs and for pull-request URLs, every batch handed to
\* analyzeSingleFile / analyzeMultipleFiles has at most MAX_FILES (20) files
\* and only files of a size of at most MAX_FILE_SIZE (500000 bytes)
C18_CapsEnforced ==
    browserResult # <<>> =>
        /\ Len(submitted) <= LIMITS.MAX_FILES
        /\ \A i \in DOMAIN submitted :
               SizeAt(submitted[i].filename) <= LIMITS.MAX_FILE_SIZE

\* the paths that are selected
SelectedPaths == {selectedFiles[i] : i \in DOMAIN selectedFiles}

\* C29: in the file selector, after the pre-selection and after every
\* sequence of toggles, Select All and Deselect All, the number of selected
\* files does not exceed MAX_FILES; the toggle of a file that is not
\* selected when MAX_FILES are selected leaves the selection as it is, and
\* the toggle of a selected file removes it
C29_SelectionWithinMaxFiles ==
    /\ Len(selectedFiles) <= LIMITS.MAX_FILES
    /\ githubData # <<>> =>
           \A i \in DOMAIN githubData[1].files :
               LET path == githubData[1].files[i].path
                   toggled == handleToggleFile(selectedFiles, path)
               IN /\ (path \notin SelectedPaths
                          /\ Len(selectedFiles) >= LIMITS.MAX_FILES)
                         => toggled = selectedFiles
                  /\ path \in SelectedPaths =>
                         /\ \A k \in DOMAIN toggled : toggled[k] # path
                         /\ \A p \in SelectedPaths \ {path} :
                                \E k \in DOMAIN toggled : toggled[k] = p
                         /\ Len(toggled) < Len(selectedFiles)

\* of more than MAX_FILES files listed, MAX_FILES are selected again after
\* the first was toggled off and the last, which the pre-selection left
\* out, was toggled on
C29_Witness ==
    /\ githubData # <<>>
    /\ Len(githubData[1].files) > LIMITS.MAX_FILES
    /\ Len(selectedFiles) = LIMITS.MAX_FILES
    /\ githubData[1].files[1].path \notin SelectedPaths
    /\ githubData[1].files[Len(githubData[1].files)].path \in SelectedPaths

\* the raw content that GitHub serves at the path, <<>> when the fetch fails
RawContent(path) ==
    LET found == SelectSeq(github.items, LAMBDA item : item.path = path)
    IN IF found = <<>> THEN <<>> ELSE found[1].raw

\* the files of the paths that could be fetched, in the order of the paths
RECURSIVE FetchedFiles(_)
FetchedFiles(paths) ==
    IF paths = <<>> THEN <<>>
    ELSE LET last == paths[Len(paths)]
         IN FetchedFiles(SubSeq(paths, 1, Len(paths) - 1))
                \o (IF RawContent(last) = <<>> THEN <<>>
                    ELSE <<[filename |-> last, content |-> RawContent(last)[1]]>>)

\* C30: fetchMultipleFiles over n paths attempts the paths one at a time in
\* their order; a fetch that fails is skipped and does not end the loop; the
\* result holds the files that were fetched, in the order of the paths; and
\* onProgress is called once for each path, after its attempt, with current
\* = 1, 2, ..., n and total = n
C30_FetchesInOrderWithProgress ==
    fetching # <<>> =>
        LET loop == fetching[1]
            n == Len(loop.paths)
            attempted == SubSeq(loop.paths, 1, loop.i)
        IN /\ loop.i <= n
           /\ Len(requests) >= loop.i
           /\ \A k \in 1..loop.i :
                  requests[Len(requests) - loop.i + k]
                      = Request(RAW_CONTENT_BASE, "/owner/repo/ref/path", loop.paths[k])
           /\ loop.results = FetchedFiles(attempted)
           /\ Len(loop.calls) = loop.i
           /\ \A k \in 1..loop.i :
                  /\ loop.calls[k].current = k
                  /\ loop.calls[k].total = n
                  /\ loop.calls[k].currentFile = <<loop.paths[k]>>

\* the loop has ended over two paths or more, the first fetch failed and a
\* later one gave a file
C30_Witness ==
    /\ fetching # <<>>
    /\ fetching[1].i = Len(fetching[1].paths)
    /\ fetching[1].i >= 2
    /\ RawContent(fetching[1].paths[1]) = <<>>
    /\ fetching[1].results # <<>>
    /\ Len(fetching[1].calls) = fetching[1].i

(***************************************************************************)
(* Claims about the callers of analyzeCode.                                *)
(***************************************************************************)
\* the files of the analyzed batch whose result carries no error
TrustedFiles ==
    {i \in DOMAIN browserResult[1].files : browserResult[1].files[i].error = <<>>}

\* C22: every caller of analyzeCode checks the result's error field before
\* it trusts the scores: a result whose error is set is not averaged into a
\* batch aggregate (the aggregated category scores are the rounded averages
\* over the files that parsed), and a batch that holds a file that does not
\* parse does not end with the verdict APPROVE
C22_ErrorCheckedBeforeScores ==
    (Len(submitted) > 1 /\ browserResult # <<>>) =>
        LET batch == browserResult[1]
        IN /\ TrustedFiles # {} =>
                  \A category \in CATEGORY_KEYS :
                      IsNearestInteger(
                          batch.aggregated[category].score,
                          SumOver(TrustedFiles,
                                  [i \in TrustedFiles |-> batch.files[i][category].score]),
                          Cardinality(TrustedFiles))
           /\ TrustedFiles # DOMAIN batch.files => batch.verdict # "APPROVE"
(***************************************************************************)
(* SpecHistory: the local history service is called at most                *)
(* MaxHistoryCalls times, on a storage that holds the items of earlier     *)
(* saves; localStorage.setItem and removeItem succeed or throw.            *)
(***************************************************************************)
\* review objects: the result bundle that handleBrowserAnalyze saves, and
\* a Review document as the backend answers it, with its own _id and
\* createdAt
SAVED_REVIEWS ==
    <<[totalScore |-> 92, verdict |-> "APPROVE",
       source |-> SessionTxt.TxtOwner \o SessionTxt.TxtSlash \o SessionTxt.TxtRepo],
      [_id |-> <<54, 53, 102, 48>>, totalScore |-> 80, code |-> SampleTxt.NameInput,
       createdAt |-> 0]>>

\* the storage after count saves of the first review, made at the times
\* 1..count
StoredItems(count) ==
    [j \in 1..count |->
        [createdAt |-> count - j + 1, isLocal |-> TRUE]
            @@ SAVED_REVIEWS[1]
            @@ [_id |-> SessionTxt.TxtLocalPrefix \o NumberToString(count - j + 1)]]

STORED_COUNTS == {0, 1, MAX_HISTORY_ITEMS - 1, MAX_HISTORY_ITEMS}

\* Date.now() at the next call: later than every earlier save
Now == MAX_HISTORY_ITEMS + Len(historyCalls) + 1

InitHistory ==
    /\ \E count \in STORED_COUNTS : history = StoredItems(count)
    /\ historyCalls = <<>>
    /\ github = <<>> /\ githubData = <<>> /\ selectedFiles = <<>>
    /\ fetching = <<>> /\ requests = <<>> /\ location = <<>>
    /\ IdlePipeline /\ IdleRCI /\ IdleVerdict /\ IdleDecision
    /\ IdleEntry /\ IdleLambda

\* the ids that are asked to be deleted: those of the newest and of the
\* oldest item, and the id of the Review document, which no item has
\* before the document is saved
DeletedIds ==
    (IF history = <<>> THEN {} ELSE {history[1]._id, history[Len(history)]._id})
        \cup {SAVED_REVIEWS[2]._id}

SaveToHistory ==
    /\ Len(historyCalls) < MaxHistoryCalls
    /\ \E r \in DOMAIN SAVED_REVIEWS, storageThrows \in BOOLEAN :
           \E saved \in {saveToHistory(history, SAVED_REVIEWS[r], Now, storageThrows)} :
               /\ history' = saved.history
               /\ historyCalls' =
                      Append(historyCalls,
                             [op |-> "saveToHistory", review |-> <<SAVED_REVIEWS[r]>>,
                              id |-> <<>>, returned |-> saved.id])
    /\ UNCHANGED <<github, githubData, selectedFiles, fetching, requests, location,
                   pipelineVars, rciVars, verdictVars, decisionVars, entryVars,
                   lambdaVars>>

DeleteFromHistory ==
    /\ Len(historyCalls) < MaxHistoryCalls
    /\ \E id \in DeletedIds, storageThrows \in BOOLEAN :
           \E deleted \in {deleteFromHistory(history, id, storageThrows)} :
               /\ history' = deleted.history
               /\ historyCalls' =
                      Append(historyCalls,
                             [op |-> "deleteFromHistory", review |-> <<>>,
                              id |-> <<id>>, returned |-> <<deleted.returned>>])
    /\ UNCHANGED <<github, githubData, selectedFiles, fetching, requests, location,
                   pipelineVars, rciVars, verdictVars, decisionVars, entryVars,
                   lambdaVars>>

ClearHistory ==
    /\ Len(historyCalls) < MaxHistoryCalls
    /\ \E storageThrows \in BOOLEAN :
           \E cleared \in {clearHistory(history, storageThrows)} :
               /\ history' = cleared.history
               /\ historyCalls' =
                      Append(historyCalls,
                             [op |-> "clearHistory", review |-> <<>>, id |-> <<>>,
                              returned |-> <<cleared.returned>>])
    /\ UNCHANGED <<github, githubData, selectedFiles, fetching, requests, location,
                   pipelineVars, rciVars, verdictVars, decisionVars, entryVars,
                   lambdaVars>>

NextHistory == SaveToHistory \/ DeleteFromHistory \/ ClearHistory

SpecHistory == InitHistory /\ [][NextHistory]_vars

(***************************************************************************)
(* Properties of the local history.                                        *)
(***************************************************************************)
\* at most MAX_HISTORY_ITEMS items, each saved later than those after it
NewestFirst ==
    /\ Len(history) <= 50
    /\ \A i, j \in DOMAIN history : i < j => history[i].createdAt > history[j].createdAt

\* what the call made last did to the stored history
LastCallKept ==
    LET call == historyCalls'[Len(historyCalls')]
        kept == MathMin(Len(history), 50 - 1)
    IN CASE call.op = "saveToHistory" ->
                IF call.returned = <<>> THEN history' = history
                ELSE /\ Len(history') = kept + 1
                     /\ SubSeq(history', 2, kept + 1) = SubSeq(history, 1, kept)
                     /\ history'[1].createdAt = Now
                     /\ \A i \in 1..kept : history'[1].createdAt > history[i].createdAt
          [] call.op = "deleteFromHistory" ->
                IF call.returned = <<FALSE>> THEN history' = history
                ELSE history' = SelectSeq(history, LAMBDA item : item._id # call.id[1])
          [] call.op = "clearHistory" ->
                IF call.returned = <<FALSE>> THEN history' = history
                ELSE history' = <<>>

\* C27: after every sequence of saveToHistory, deleteFromHistory and
\* clearHistory calls the stored history holds at most 50 items, newest
\* first (the item saved last at the head); a save that would exceed 50
\* drops only the oldest items, and deleteFromHistory(id) removes exactly the
\* items of that id and leaves the others and their order as they were
C27_HistoryBoundedNewestFirst == [][NewestFirst' /\ LastCallKept]_vars

\* a save on a full history dropped the oldest item, and a later
\* deleteFromHistory removed an item
C27_Witness ==
    /\ Len(historyCalls) >= 2
    /\ historyCalls[1].op = "saveToHistory"
    /\ historyCalls[1].returned # <<>>
    /\ historyCalls[2].op = "deleteFromHistory"
    /\ historyCalls[2].returned = <<TRUE>>
    /\ Len(history) = MAX_HISTORY_ITEMS - 1
    /\ history[Len(history)].createdAt = 2

\* the call made last, when it is a saveToHistory
LastSave ==
    IF historyCalls # <<>> /\ historyCalls[Len(historyCalls)].op = "saveToHistory"
    THEN <<historyCalls[Len(historyCalls)]>>
    ELSE <<>>

\* C28: for every review object, when saveToHistory(review) returns an id
\* that is not null, the item is stored under that id: getReviewById(id)
\* called next returns an item whose _id is the returned id and whose other
\* fields are those of review
C28_SavedUnderReturnedId ==
    (LastSave # <<>> /\ LastSave[1].returned # <<>>) =>
        LET review == LastSave[1].review[1]
            found == getReviewById(history, LastSave[1].returned[1])
        IN /\ found # <<>>
           /\ found[1]._id = LastSave[1].returned[1]
           /\ \A field \in DOMAIN review \ {"_id"} : found[1][field] = review[field]
\* the string literals of the serverless handler /api/analyze (api/analyze.js),
\* each the sequence of its character codes
LambdaTxt ==
    [\* "Method not allowed"
     TxtMethodNotAllowed |-> <<77, 101, 116, 104, 111, 100, 32, 110, 111,
         116, 32, 97, 108, 108, 111, 119, 101, 100>>,
     \* "POST"
     TxtPost |-> <<80, 79, 83, 84>>,
     \* "Invalid JSON in request body"
     TxtInvalidJson |-> <<73, 110, 118, 97, 108, 105, 100, 32, 74, 83, 79,
         78, 32, 105, 110, 32, 114, 101, 113, 117, 101, 115, 116, 32, 98, 111,
         100, 121>>,
     \* "Invalid input"
     TxtInvalidInput |-> <<73, 110, 118, 97, 108, 105, 100, 32, 105, 110,
         112, 117, 116>>,
     \* "Internal server error during code analysis"
     TxtInternalError |-> <<73, 110, 116, 101, 114, 110, 97, 108, 32, 115,
         101, 114, 118, 101, 114, 32, 101, 114, 114, 111, 114, 32, 100, 117, 114,
         105, 110, 103, 32, 99, 111, 100, 101, 32, 97, 110, 97, 108, 121, 115,
         105, 115>>]

(***************************************************************************)
(* The serverless function /api/analyze (api/analyze.js): connectDB and    *)
(* the handler, cut at their awaits.                                       *)
(***************************************************************************)
\* connectDB up to its await: it returns at once when the process is
\* connected or MONGODB_URI is not set, and calls mongoose.connect otherwise
connectDB(connected, uri) ==
    IF connected THEN "return"
    ELSE IF uri = <<>> THEN "return"
         ELSE "connect"

\* connectDB after its await: isConnected once mongoose.connect has settled
connectDBSettled(connected, resolved) == IF resolved THEN TRUE ELSE connected

\* the body of the request as the handler reads it: a body that is a string
\* is parsed as JSON
ParsedBody(req) ==
    IF req.body.typeof = "string"
    THEN IF req.body.json THEN <<[code |-> req.body.code]>> ELSE <<>>
    ELSE <<[code |-> req.body.code]>>

\* the handler up to await connectDB(): the response it returns at once, or
\* the result of analyze that it goes on with
handlerAnalyze(req) ==
    LET Respond(status, body) == [response |-> <<[status |-> status, body |-> body]>>,
                                  result |-> <<>>]
        Outcome(outcome) ==
            IF outcome.threw # <<>>
            THEN IF StartsWith(outcome.threw[1], LambdaTxt.TxtInvalidInput)
                 THEN Respond(400, [error |-> outcome.threw[1]])
                 ELSE Respond(500, [error |-> LambdaTxt.TxtInternalError])
            ELSE IF outcome.returned[1].error # <<>>
                 THEN Respond(422, outcome.returned[1])
                 ELSE [response |-> <<>>, result |-> outcome.returned]
    IN IF req.method # "POST"
       THEN Respond(405, [error |-> LambdaTxt.TxtMethodNotAllowed,
                          allowed |-> <<LambdaTxt.TxtPost>>])
       ELSE IF ParsedBody(req) = <<>>
            THEN Respond(400, [error |-> LambdaTxt.TxtInvalidJson])
            ELSE CHOOSE reply \in
                     {Outcome(outcome) : outcome \in {analyze(ParsedBody(req)[1].code)}} :
                     TRUE

\* a response of status 200 that reports a saved review whenever it is sent
handlerReplyAlwaysSaved(result, savedReview) ==
    [status |-> 200,
     body |-> [_id |-> IF savedReview = <<>> THEN <<>> ELSE <<savedReview[1]._id>>,
               savedToDatabase |-> TRUE]
                  @@ result
                  @@ [scores |-> [readability |-> result.readability,
                                  complexity |-> result.complexity,
                                  edgeCases |-> result.edgeCases,
                                  security |-> result.security,
                                  totalScore |-> result.totalScore]]]

\* the response of status 200: the result with the scores, the id of the
\* saved review or null (<<>>), and savedToDatabase
handlerReply(result, savedReview) ==
    [status |-> 200,
     body |-> [_id |-> IF savedReview = <<>> THEN <<>> ELSE <<savedReview[1]._id>>,
               savedToDatabase |-> savedReview # <<>>]
                  @@ result
                  @@ [scores |-> [readability |-> result.readability,
                                  complexity |-> result.complexity,
                                  edgeCases |-> result.edgeCases,
                                  security |-> result.security,
                                  totalScore |-> result.totalScore]]]
(***************************************************************************)
(* SpecLambda: requests reach one warm process of the serverless function  *)
(* /api/analyze, whose invocations interleave at their awaits, or the      *)
(* Express route POST /analyze; mongoose.connect and review.save() resolve *)
(* or reject.                                                              *)
(***************************************************************************)
\* the values of process.env.MONGODB_URI: not set, or set
MONGODB_URIS == {<<>>, <<<<109, 111, 110, 103, 111, 100, 98, 58, 47, 47, 100, 98>>>>}

\* the code fields of the requests: a text with a penalized pattern, the
\* empty string, white space, no code field, and a text that does not parse
REQUEST_CODES ==
    <<SourceCode(<<"eval">>), TextCode(<<>>), TextCode(<<10, 9, 32>>),
      NonStringCode("undefined"), InvalidCode(SampleTxt.TxtUnexpectedToken)>>

\* the requests: a POST for each code, the first code in a body that is a
\* string of JSON, a body that is not JSON, and a GET
REQUESTS ==
    [i \in 1..(Len(REQUEST_CODES) + 3) |->
        IF i <= Len(REQUEST_CODES)
        THEN [method |-> "POST",
              body |-> [typeof |-> "object", json |-> TRUE, code |-> REQUEST_CODES[i]]]
        ELSE IF i = Len(REQUEST_CODES) + 1
             THEN [method |-> "POST",
                   body |-> [typeof |-> "string", json |-> TRUE,
                             code |-> REQUEST_CODES[1]]]
             ELSE IF i = Len(REQUEST_CODES) + 2
                  THEN [method |-> "POST",
                        body |-> [typeof |-> "string", json |-> FALSE,
                                  code |-> NonStringCode("undefined")]]
                  ELSE [method |-> "GET",
                        body |-> [typeof |-> "object", json |-> TRUE,
                                  code |-> REQUEST_CODES[1]]]]

\* an invocation that has not started
Invocation(request) ==
    [req |-> REQUESTS[request], pc |-> "received", result |-> <<>>,
     response |-> <<>>, connectRejected |-> FALSE, saveCalls |-> 0,
     savedReview |-> <<>>, route |-> "none"]

InitLambda ==
    /\ \E n \in 1..MaxInvocations :
           \E chosen \in [1..n -> DOMAIN REQUESTS] :
               /\ \A i \in 1..(n - 1) : chosen[i] <= chosen[i + 1]
               /\ invocations = [i \in 1..n |-> Invocation(chosen[i])]
    /\ \E uri \in MONGODB_URIS : env = [MONGODB_URI |-> uri]
    /\ isConnected = FALSE
    /\ connectCalls = 0
    /\ IdlePipeline /\ IdleRCI /\ IdleVerdict /\ IdleDecision
    /\ IdleEntry /\ IdleSession

\* the handler runs up to its first await: it responds at once, or calls
\* connectDB, which returns or calls mongoose.connect
HandlerStart(i) ==
    /\ invocations[i].pc = "received"
    /\ \E start \in {handlerAnalyze(invocations[i].req)} :
           IF start.response # <<>>
           THEN /\ invocations' =
                       [invocations EXCEPT ![i].pc = "responded",
                                           ![i].route = "/api/analyze",
                                           ![i].response = start.response]
                /\ UNCHANGED connectCalls
           ELSE IF connectDB(isConnected, env.MONGODB_URI) = "connect"
                THEN /\ invocations' =
                            [invocations EXCEPT ![i].pc = "connecting",
                                                ![i].route = "/api/analyze",
                                                ![i].result = start.result]
                     /\ connectCalls' = connectCalls + 1
                ELSE /\ invocations' =
                            [invocations EXCEPT ![i].pc = "connectDB returned",
                                                ![i].route = "/api/analyze",
                                                ![i].result = start.result]
                     /\ UNCHANGED connectCalls
    /\ UNCHANGED <<isConnected, env, pipelineVars, rciVars, verdictVars, decisionVars,
                   entryVars, sessionVars>>

\* mongoose.connect resolves or rejects, and connectDB returns
ConnectSettles(i) ==
    /\ invocations[i].pc = "connecting"
    /\ \E resolved \in BOOLEAN :
           /\ isConnected' = connectDBSettled(isConnected, resolved)
           /\ invocations' =
                  [invocations EXCEPT ![i].pc = "connectDB returned",
                                      ![i].connectRejected = ~resolved]
    /\ UNCHANGED <<connectCalls, env, pipelineVars, rciVars, verdictVars,
                   decisionVars, entryVars, sessionVars>>

\* the handler goes on after await connectDB(): it calls review.save() when
\* the process is connected, and responds without saving otherwise
HandlerSave(i) ==
    /\ invocations[i].pc = "connectDB returned"
    /\ IF isConnected
       THEN invocations' = [invocations EXCEPT ![i].pc = "saving",
                                               ![i].saveCalls = @ + 1]
       ELSE invocations' =
                [invocations EXCEPT
                    ![i].pc = "responded",
                    ![i].response = <<handlerReply(invocations[i].result[1], <<>>)>>]
    /\ UNCHANGED <<isConnected, connectCalls, env, pipelineVars, rciVars, verdictVars,
                   decisionVars, entryVars, sessionVars>>

\* review.save() resolves with the saved document or rejects, and the
\* handler responds
SaveSettles(i) ==
    /\ invocations[i].pc = "saving"
    /\ \E saveThrows \in BOOLEAN :
           LET savedReview ==
                   IF saveThrows THEN <<>>
                   ELSE <<Review(invocations[i].req.body.code,
                                 invocations[i].result[1], Len(reviews) + 1)>>
           IN /\ reviews' = reviews \o savedReview
              /\ invocations' =
                     [invocations EXCEPT
                         ![i].pc = "responded",
                         ![i].savedReview = savedReview,
                         ![i].response =
                             <<handlerReply(invocations[i].result[1], savedReview)>>]
    /\ UNCHANGED <<response, isConnected, connectCalls, env, pipelineVars, rciVars,
                   verdictVars, decisionVars, sessionVars>>

\* the request is sent to the Express route POST /analyze instead, whose
\* body parser gives the code field
RoutePost(i) ==
    /\ invocations[i].pc = "received"
    /\ invocations[i].req.method = "POST"
    /\ invocations[i].req.body.typeof = "object"
    /\ \E saveThrows \in BOOLEAN :
           \E reply \in {postAnalyze(invocations[i].req.body.code, saveThrows,
                                     Len(reviews) + 1)} :
               /\ reviews' = reviews \o reply.saved
               /\ invocations' =
                      [invocations EXCEPT
                          ![i].pc = "responded",
                          ![i].route = "/analyze",
                          ![i].savedReview = reply.saved,
                          ![i].response = <<[status |-> reply.status,
                                             body |-> reply.body]>>,
                          ![i].saveCalls = IF reply.status \in {201, 500} THEN 1
                                           ELSE 0]
    /\ UNCHANGED <<response, isConnected, connectCalls, env, pipelineVars, rciVars,
                   verdictVars, decisionVars, sessionVars>>

NextLambda ==
    \E i \in DOMAIN invocations :
        \/ HandlerStart(i)
        \/ ConnectSettles(i)
        \/ HandlerSave(i)
        \/ SaveSettles(i)
        \/ RoutePost(i)

SpecLambda == InitLambda /\ [][NextLambda]_vars

(***************************************************************************)
(* Properties of the serverless handler and of the saving of reviews.      *)
(***************************************************************************)
\* the code that the handler reads from the request, if the body gives one
RequestCode(req) ==
    IF ParsedBody(req) = <<>> THEN NonStringCode("undefined")
    ELSE ParsedBody(req)[1].code

\* the request is a POST of a code that is a string, not blank, and parses
ValidRequest(req) ==
    /\ req.method = "POST"
    /\ ParsedBody(req) # <<>>
    /\ ~IsBlank(RequestCode(req))
    /\ RequestCode(req).syntaxError = <<>>

\* C24: in the handler of /api/analyze persistence never fails an analysis:
\* for a valid code that parses the response is 200 with the scores of the
\* analysis, whether MONGODB_URI is not set, the connection attempt fails,
\* or the save throws; savedToDatabase is true exactly when the save
\* succeeded, with the id of the saved review, and _id is null otherwise
C24_PersistenceNeverFailsAnalysis ==
    \A i \in DOMAIN invocations :
        (/\ invocations[i].route = "/api/analyze"
         /\ invocations[i].pc = "responded"
         /\ ValidRequest(invocations[i].req)) =>
            \E inv \in {invocations[i]} :
                \E body \in {inv.response[1].body},
                   result \in {analyzeCode(RequestCode(inv.req))} :
                    /\ inv.response[1].status = 200
                    /\ body.totalScore = result.totalScore
                    /\ \A category \in CATEGORY_KEYS :
                           /\ body[category] = result[category]
                           /\ body.scores[category] = result[category]
                    /\ body.scores.totalScore = result.totalScore
                    /\ body.savedToDatabase = (inv.savedReview # <<>>)
                    /\ inv.savedReview # <<>> =>
                           /\ body._id = <<inv.savedReview[1]._id>>
                           /\ \E k \in DOMAIN reviews : reviews[k] = inv.savedReview[1]
                    /\ inv.savedReview = <<>> => body._id = <<>>

\* two requests of a valid code were answered by the handler, one whose
\* connection attempt failed and one whose review was saved
C24_Witness ==
    \E i, j \in DOMAIN invocations :
        /\ invocations[i].route = "/api/analyze" /\ invocations[j].route = "/api/analyze"
        /\ ValidRequest(invocations[i].req) /\ ValidRequest(invocations[j].req)
        /\ invocations[i].pc = "responded" /\ invocations[j].pc = "responded"
        /\ invocations[i].connectRejected
        /\ invocations[i].response[1].status = 200
        /\ ~invocations[i].response[1].body.savedToDatabase
        /\ invocations[j].response[1].body.savedToDatabase

\* C25: a Review is saved only for an analysis that succeeded: over the
\* requests to POST /analyze and to /api/analyze, review.save() is not
\* called for a request whose code is not a string, is empty or does not
\* parse, and it is called at most once for a request; the saved reviews
\* hold valid codes
C25_SavedOnlyAfterSuccess ==
    /\ \A i \in DOMAIN invocations :
           /\ invocations[i].saveCalls <= 1
           /\ invocations[i].saveCalls > 0 => ValidRequest(invocations[i].req)
           /\ invocations[i].savedReview # <<>> => invocations[i].saveCalls = 1
    /\ \A k \in DOMAIN reviews :
           /\ ~IsBlank(reviews[k].code)
           /\ reviews[k].code.syntaxError = <<>>
    /\ Len(reviews) <= Len(invocations)

\* a request without a valid code was answered without a save, and a review
\* was saved for another request
C25_Witness ==
    \E i, j \in DOMAIN invocations :
        /\ invocations[i].pc = "responded"
        /\ ~ValidRequest(invocations[i].req)
        /\ invocations[i].req.method = "POST"
        /\ invocations[i].saveCalls = 0
        /\ invocations[j].saveCalls = 1
        /\ reviews # <<>>

\* C26: connectDB reuses the connection of a warm process: under every
\* interleaving of the invocations of one process mongoose.connect is called
\* at most once as long as no connection attempt fails, and isConnected is
\* true only after a connect call has succeeded
C26_ConnectsAtMostOnce ==
    /\ (\A i \in DOMAIN invocations : ~invocations[i].connectRejected)
           => connectCalls <= 1
    /\ isConnected =>
           \E i \in DOMAIN invocations :
               /\ invocations[i].pc \notin {"received", "connecting"}
               /\ ~invocations[i].connectRejected
(***************************************************************************)
(* SpecVerdict: determineVerdict applied to bounded analysis results, and  *)
(* as the browser engine applies it to the files submitted.                *)
(***************************************************************************)
\* the statements for which the browser's Security analyzer reports a
\* critical issue
CRITICAL_KINDS == {"eval", "new Function", "child_process.exec"}

\* the critical issues of a file that holds the statements, as analyzeCode
\* returns them (named = FALSE) and as analyzeFiles does (named = TRUE)
CriticalIssuesOf(statements, named) ==
    LET file == [filename |-> FileName(1), content |-> SourceCode(statements)]
        result == analyzeCodeBrowser(file.content, file.filename)
        batch == analyzeFiles(<<file>>)
    IN IF named THEN batch.criticalIssues ELSE result.criticalIssues

\* aggregated scores: every total from 0 to 100 is the sum of some
ScoredCategory(score) == [score |-> score, comments |-> <<>>]

AnalysisResult(readability, complexity, edgeCases, security, criticalIssues) ==
    [totalScore |-> readability + complexity + edgeCases + security,
     criticalIssues |-> criticalIssues,
     aggregated |->
         <<[readability |-> ScoredCategory(readability),
            complexity |-> ScoredCategory(complexity),
            edgeCases |-> ScoredCategory(edgeCases),
            security |-> ScoredCategory(security),
            totalScore |-> readability + complexity + edgeCases + security]>>]

InitVerdict ==
    /\ \/ /\ \E readability \in 0..25, complexity \in {0, 25}, edgeCases \in {0, 25},
                security \in {0, 25}, n \in 0..MaxCriticalIssues :
                 \E statements \in [1..n -> CRITICAL_KINDS],
                 named \in {x \in BOOLEAN : n > 0 \/ x} :
                     verdictIn =
                         <<AnalysisResult(readability, complexity, edgeCases, security,
                                          CriticalIssuesOf(statements, named))>>
          /\ verdictOut = <<>>
          /\ IdlePipeline
       \/ /\ Submit
          /\ serverResult = <<>>
          /\ browserResult = <<>>
          /\ IdleVerdict
    /\ IdleRCI /\ IdleDecision
    /\ IdleEntry /\ IdleSession /\ IdleLambda

DetermineVerdict ==
    /\ verdictIn # <<>>
    /\ verdictOut = <<>>
    /\ verdictOut' = <<determineVerdict(verdictIn[1])>>
    /\ UNCHANGED <<verdictIn, pipelineVars, rciVars, decisionVars, entryVars,
                   sessionVars, lambdaVars>>

NextVerdict == DetermineVerdict \/ AnalyzeSingleFile \/ AnalyzeMultipleFiles

SpecVerdict == InitVerdict /\ [][NextVerdict]_vars

(***************************************************************************)
(* Properties of the verdict.                                              *)
(***************************************************************************)
\* the browser's Security analyzer reports a CRITICAL issue in the file
HasCriticalIssue(file) ==
    /\ Parses(file)
    /\ LET issues == analyzeSecurityBrowser(Program(file.content.statements))
       IN \E i \in 1..Len(issues) : issues[i].severity = "CRITICAL"

\* the calls of determineVerdict that the state holds the result of, each
\* [totalScore, criticalIssues, verdict, details]
VerdictCalls ==
    {[totalScore |-> verdictIn[1].totalScore,
      criticalIssues |-> verdictIn[1].criticalIssues,
      verdict |-> verdictOut[1].verdict,
      details |-> verdictOut[1].details] : i \in DOMAIN verdictOut}
        \cup {[totalScore |-> browserResult[1].totalScore,
               criticalIssues |-> browserResult[1].criticalIssues,
               verdict |-> browserResult[1].verdict,
               details |-> browserResult[1].verdictDetails] : i \in DOMAIN browserResult}

\* C2: determineVerdict returns BLOCK_MERGE whenever criticalIssues holds at
\* least one issue, for every totalScore from 0 to 100; analyzeSingleFile
\* and analyzeMultipleFiles return BLOCK_MERGE when a file of those
\* submitted has a CRITICAL issue, whatever the other files and the
\* averaged score.
C2_CriticalBlocksMerge ==
    /\ \A call \in VerdictCalls :
           call.criticalIssues # <<>> => call.verdict = VERDICTS.BLOCK_MERGE
    /\ browserResult # <<>> /\ (\E k \in 1..Len(submitted) : HasCriticalIssue(submitted[k]))
           => browserResult[1].verdict = VERDICTS.BLOCK_MERGE

\* a batch with a CRITICAL issue in one file only, whose averaged score alone
\* gives APPROVE, is blocked
C2_Witness ==
    /\ Len(submitted) > 1
    /\ browserResult # <<>>
    /\ HasCriticalIssue(submitted[1])
    /\ \A k \in 2..Len(submitted) : ~HasCriticalIssue(submitted[k])
    /\ browserResult[1].totalScore >= VERDICT_THRESHOLDS.APPROVE_MIN
    /\ browserResult[1].verdict = VERDICTS.BLOCK_MERGE

\* the band a total score falls in
ScoreBand(totalScore) ==
    CASE totalScore >= 85 -> "APPROVE"
      [] totalScore \in 75..84 -> "APPROVE_WITH_NITS"
      [] totalScore \in 65..74 -> "REQUEST_CHANGES"
      [] totalScore < 65 -> "BLOCK_MERGE"

\* C3: when criticalIssues is empty, the verdict is APPROVE for a totalScore
\* of 85 or more, APPROVE_WITH_NITS for 75..84, REQUEST_CHANGES for 65..74
\* and BLOCK_MERGE below 65; details.wasOverridden is false and
\* details.scoreBasedVerdict is the verdict returned.
C3_ScoreBands ==
    \A call \in VerdictCalls :
        call.criticalIssues = <<>> =>
            /\ call.verdict = ScoreBand(call.totalScore)
            /\ ~call.details.wasOverridden
            /\ call.details.scoreBasedVerdict = call.verdict

\* a score at the lowest value of a band, without critical issues
C3_Witness ==
    /\ verdictOut # <<>>
    /\ verdictIn[1].criticalIssues = <<>>
    /\ verdictIn[1].totalScore = 75
    /\ verdictOut[1].verdict = "APPROVE_WITH_NITS"

(***************************************************************************)
(* SpecDecision: determineDecision applied to bounded scores, and as the   *)
(* server's analyzeCode applies it to the source submitted.                *)
(***************************************************************************)
\* category scores on both sides of the thresholds
DECISION_SCORES == {0, 9, 10, 11, 19, 20, 25}

\* the statements that the security comments of the scores come from
COMMENT_SOURCES ==
    {<<>>, <<"eval">>, <<"Function">>, <<"new Function">>, <<"child_process.exec">>,
     <<"password">>, <<"api key">>, <<"sql">>, <<"sql", "new Function">>}

\* the comments of the server's Security analyzer on the statements
SecurityComments(statements) ==
    aggregateCategory(SECURITY_MAX, analyzeSecurity(Program(statements))).comments

Scores(readability, complexity, edgeCases, security, comments) ==
    [readability |-> [score |-> readability, comments |-> <<>>],
     complexity |-> [score |-> complexity, comments |-> <<>>],
     edgeCases |-> [score |-> edgeCases, comments |-> <<>>],
     security |-> [score |-> security, comments |-> comments],
     totalScore |-> readability + complexity + edgeCases + security]

\* the security score is 25 when there is no security comment, and lower
\* when there is one
InitDecision ==
    /\ \/ /\ \E readability \in DECISION_SCORES, complexity \in DECISION_SCORES,
                edgeCases \in DECISION_SCORES, security \in DECISION_SCORES,
                statements \in COMMENT_SOURCES :
                 /\ security = 25 <=> statements = <<>>
                 /\ decisionIn =
                        <<Scores(readability, complexity, edgeCases, security,
                                 SecurityComments(statements))>>
          /\ decisionOut = <<>>
          /\ IdlePipeline
       \/ /\ SubmitSource
          /\ serverResult = <<>>
          /\ browserResult = <<>>
          /\ IdleDecision
    /\ IdleRCI /\ IdleVerdict
    /\ IdleEntry /\ IdleSession /\ IdleLambda

DetermineDecision ==
    /\ decisionIn # <<>>
    /\ decisionOut = <<>>
    /\ decisionOut' = <<determineDecision(decisionIn[1])>>
    /\ UNCHANGED <<decisionIn, pipelineVars, rciVars, verdictVars, entryVars,
                   sessionVars, lambdaVars>>

NextDecision == DetermineDecision \/ AnalyzeCode

SpecDecision == InitDecision /\ [][NextDecision]_vars

(***************************************************************************)
(* Properties of the review decision.                                      *)
(***************************************************************************)
\* the calls of determineDecision that the state holds the result of: the
\* scores passed and the decision returned
DecisionCalls ==
    {[scores |-> decisionIn[1], result |-> decisionOut[1]] : i \in DOMAIN decisionOut}
        \cup {[scores |-> serverResult[1],
               result |-> [decision |-> serverResult[1].decision,
                           decisionReason |-> serverResult[1].decisionReason,
                           decisionDetails |-> serverResult[1].decisionDetails]] :
                 i \in {j \in DOMAIN serverResult : Parses(submitted[1])}}

BelowCategoryMinimum(scores) == {c \in CATEGORY_KEYS : scores[c].score < 10}

Rejected(scores) == scores.totalScore < 65 \/ BelowCategoryMinimum(scores) # {}

\* C4: determineDecision returns NOT_READY_FOR_REVIEW if and only if
\* totalScore < 65 or some category score is < 10, and
\* decisionDetails.failedCategories lists exactly the categories below 10.
C4_RejectRule ==
    \A call \in DecisionCalls :
        LET failed == call.result.decisionDetails.failedCategories
        IN /\ call.result.decision = "NOT_READY_FOR_REVIEW" <=> Rejected(call.scores)
           /\ {failed[i] : i \in 1..Len(failed)} = BelowCategoryMinimum(call.scores)
           /\ Len(failed) = Cardinality(BelowCategoryMinimum(call.scores))

\* a total of 65 or more is rejected for one category below 10
C4_Witness ==
    /\ decisionOut # <<>>
    /\ decisionIn[1].totalScore >= 65
    /\ decisionIn[1].edgeCases.score = 9
    /\ decisionOut[1].decision = "NOT_READY_FOR_REVIEW"
    /\ decisionOut[1].decisionDetails.failedCategories = <<"edgeCases">>

\* some comment contains, case-insensitively, one of the four substrings
MatchesCriticalPattern(comments) ==
    \E i \in 1..Len(comments) :
        \E p \in {SecTxt.NameEval, VerdictTxt.PatFunctionCall,
                  BrwSecTxt.NameChildProcess, DecisionTxt.PatHardcodedSecret} :
            Includes(ToLowerCase(comments[i]), ToLowerCase(p))

\* C5: when totalScore >= 65 and every category >= 10, determineDecision
\* returns NEEDS_REFACTOR if totalScore <= 80; above 80 it returns
\* NEEDS_REFACTOR when a security comment contains, case-insensitively,
\* 'eval', 'Function()', 'child_process' or 'hardcoded secret', and
\* READY_FOR_HUMAN_REVIEW otherwise; READY_FOR_HUMAN_REVIEW is returned in
\* no other case.
C5_RefactorAndReadyRules ==
    \A call \in DecisionCalls :
        LET matches == MatchesCriticalPattern(call.scores.security.comments)
            total == call.scores.totalScore
        IN /\ ~Rejected(call.scores) /\ total <= 80
                  => call.result.decision = "NEEDS_REFACTOR"
           /\ ~Rejected(call.scores) /\ total > 80 /\ matches
                  => call.result.decision = "NEEDS_REFACTOR"
           /\ ~Rejected(call.scores) /\ total > 80 /\ ~matches
                  => call.result.decision = "READY_FOR_HUMAN_REVIEW"
           /\ call.result.decision = "READY_FOR_HUMAN_REVIEW"
                  <=> total > 80 /\ BelowCategoryMinimum(call.scores) = {} /\ ~matches

\* a total above 80 is held back for the comment on a Function constructor,
\* which matches 'Function()' only when case is ignored
C5_Witness ==
    /\ decisionOut # <<>>
    /\ decisionIn[1].totalScore > 80
    /\ Len(decisionIn[1].security.comments) = 1
    /\ Includes(decisionIn[1].security.comments[1], VerdictTxt.PatFunctionCall)
    /\ ~Includes(decisionIn[1].security.comments[1], SecTxt.NameEval)
    /\ decisionOut[1].decision = "NEEDS_REFACTOR"
    /\ decisionOut[1].decisionDetails.hasCriticalDeductions

(***************************************************************************)
(* SpecRCI: calculateRCI applied to bounded metrics.                       *)
(***************************************************************************)
\* function lengths on both sides of every change of the length contribution
\* round(0.2 * n), and beyond the band
FunctionLengths == {0, 1, 2, 3, 7, 8, 12, 13, 50, 97, 98, 99, 100, 101}

Metrics ==
    [maxNestingDepth : 0..MaxNestingDepth,
     maxCyclomaticComplexity : 0..MaxCyclomaticComplexity,
     maxFunctionLength : FunctionLengths,
     totalFunctions : {1}]

InitRCI ==
    /\ rciIn \in [metrics : Metrics, securityScore : 0..25]
    /\ rciOut = <<>>
    /\ IdlePipeline /\ IdleVerdict /\ IdleDecision
    /\ IdleEntry /\ IdleSession /\ IdleLambda

CalculateRCI ==
    /\ rciOut = <<>>
    /\ rciOut' = <<calculateRCI(rciIn.metrics, rciIn.securityScore)>>
    /\ UNCHANGED <<rciIn, pipelineVars, verdictVars, decisionVars, entryVars,
                   sessionVars, lambdaVars>>

NextRCI == CalculateRCI

SpecRCI == InitRCI /\ [][NextRCI]_vars

(***************************************************************************)
(* Properties of the Review Cost Index.                                    *)
(***************************************************************************)
RciDone == rciOut # <<>>

RciResult == rciOut[1]

ContributionSum(factors) ==
    factors.nestingDepth.contribution + factors.cyclomaticComplexity.contribution
        + factors.functionLength.contribution + factors.securityDeductions.contribution

\* C7: calculateRCI returns a score in [0,100], the four weights sum to 1.0
\* (100 hundredths), and the contributions sum to the returned score, i.e.
\* the clamp to [0,100] never changes the sum.
C7_RciBounds ==
    RciDone =>
        /\ RciResult.score \in 0..100
        /\ RciResult.factors.nestingDepth.weight
               + RciResult.factors.cyclomaticComplexity.weight
               + RciResult.factors.functionLength.weight
               + RciResult.factors.securityDeductions.weight = 100
        /\ ContributionSum(RciResult.factors) = RciResult.score

C7_Witness ==
    /\ RciDone
    /\ RciResult.score = 100
    /\ rciIn.metrics.maxNestingDepth > 8
    /\ rciIn.metrics.maxCyclomaticComplexity > 25
    /\ rciIn.metrics.maxFunctionLength > 100

\* the bands and the raw values as the specification states them
StatedBand(f) ==
    CASE f = "nestingDepth" -> <<0, 8>>
      [] f = "cyclomaticComplexity" -> <<1, 25>>
      [] f = "functionLength" -> <<0, 100>>
      [] f = "securityDeductions" -> <<0, 25>>

StatedRaw(f) ==
    CASE f = "nestingDepth" -> rciIn.metrics.maxNestingDepth
      [] f = "cyclomaticComplexity" -> rciIn.metrics.maxCyclomaticComplexity
      [] f = "functionLength" -> rciIn.metrics.maxFunctionLength
      [] f = "securityDeductions" -> 25 - rciIn.securityScore

\* q is the integer nearest to num / den, halves rounded up
IsRounded(q, num, den) == 2 * num - den < 2 * q * den /\ 2 * q * den <= 2 * num + den

\* the inputs with raw factor f raised by delta (a lower security score is a
\* higher security deduction)
Raised(f, delta) ==
    CASE f = "nestingDepth" ->
            [rciIn EXCEPT !.metrics.maxNestingDepth = @ + delta]
      [] f = "cyclomaticComplexity" ->
            [rciIn EXCEPT !.metrics.maxCyclomaticComplexity = @ + delta]
      [] f = "functionLength" ->
            [rciIn EXCEPT !.metrics.maxFunctionLength = @ + delta]
      [] f = "securityDeductions" ->
            [rciIn EXCEPT !.securityScore = MathMax(0, @ - delta)]

\* the distance to the next larger sampled function length (1 past the last)
NextLengthStep ==
    LET l == rciIn.metrics.maxFunctionLength
        above == {x \in FunctionLengths : x > l}
    IN IF above = {} THEN 1
       ELSE (CHOOSE x \in above : \A y \in above : x <= y) - l

\* C8: every factor is 0 at or below its band minimum, 100 at or above its
\* band maximum and the rounded linear interpolation in between; its
\* contribution is round(normalized * weight); and raising one raw factor
\* with the others fixed never lowers the RCI score.
C8_Normalization ==
    RciDone =>
        \A f \in DOMAIN RciResult.factors :
            LET fac == RciResult.factors[f]
                min == StatedBand(f)[1]
                max == StatedBand(f)[2]
                raw == StatedRaw(f)
            IN /\ fac.rawValue = raw
               /\ raw <= min => fac.normalized = 0
               /\ raw >= max => fac.normalized = 100
               /\ (raw > min /\ raw < max) =>
                      IsRounded(fac.normalized, 100 * (raw - min), max - min)
               /\ IsRounded(fac.contribution, fac.normalized * fac.weight, 100)
               /\ \A delta \in {1, IF f = "functionLength" THEN NextLengthStep ELSE 1} :
                      calculateRCI(Raised(f, delta).metrics,
                                   Raised(f, delta).securityScore).score
                          >= RciResult.score

\* complexity 4 normalizes to round(12.5) = 13, and the score rises with it
C8_Witness ==
    /\ RciDone
    /\ rciIn.metrics.maxCyclomaticComplexity = 4
    /\ RciResult.factors.cyclomaticComplexity.normalized = 13
    /\ RciResult.factors.cyclomaticComplexity.contribution = 4
    /\ calculateRCI(Raised("cyclomaticComplexity", 1).metrics,
                    rciIn.securityScore).score
           > RciResult.score

FactorLabels ==
    [nestingDepth |-> RciTxt.LabelNestingDepth,
     cyclomaticComplexity |-> RciTxt.LabelCyclomaticComplexity,
     functionLength |-> RciTxt.LabelFunctionLength,
     securityDeductions |-> RciTxt.LabelSecurityDeductions]

\* the first factor, in the order of the weight table, whose contribution
\* no other factor exceeds
LeadingFactor ==
    LET c(i) == RciResult.factors[RCI_FACTORS[i]].contribution
        k == CHOOSE i \in 1..4 :
                 /\ \A j \in 1..4 : c(j) <= c(i)
                 /\ \A j \in 1..(i - 1) : c(j) < c(i)
    IN RCI_FACTORS[k]

\* C9 as stated: at every level the explanation names the factor with the
\* highest contribution by its label.
C9_NamesTopFactorAtEveryLevel ==
    RciDone => Includes(RciResult.humanExplanation, FactorLabels[LeadingFactor])

\* C9 as amended: at MEDIUM and HIGH the explanation names the factor with
\* the highest contribution (the first of them in the order nesting,
\* complexity, length, security when several tie) and no other factor; at
\* LOW it names no factor.
C9_NamesTopFactorAboveLow ==
    RciDone =>
        \A f \in DOMAIN FactorLabels :
            Includes(RciResult.humanExplanation, FactorLabels[f])
                <=> (RciResult.level \in {"MEDIUM", "HIGH"} /\ f = LeadingFactor)

\* a HIGH result in which two factors tie for the highest contribution
C9_Witness ==
    /\ RciDone
    /\ RciResult.level = "HIGH"
    /\ RciResult.factors.nestingDepth.contribution
           = RciResult.factors.securityDeductions.contribution
    /\ LeadingFactor = "nestingDepth"
    /\ Includes(RciResult.humanExplanation, RciTxt.LabelNestingDepth)

====
